---- MODULE Spec2Model ----
(***************************************************************************)
(* Cart / checkout orchestration layer of hsafari99/bell.                  *)
(*                                                                         *)
(* CartOperationQueue (per-user promise chain), CartStore,                 *)
(* ProviderContextStore, SalesforceCommerceProvider, CartService and       *)
(* CartCleanupService, as one state machine.  A step of the machine is the *)
(* code one asynchronous flow runs between two suspension points.          *)
(***************************************************************************)
EXTENDS Integers, Sequences, FiniteSets, TLC

(***************************************************************************)
(* Bounds of the model and constants of the program.                       *)
(***************************************************************************)
MaxTasks == 3
MaxTicks == 1
MaxGets == 1
MaxSessions == 2
MaxCalls == 3

Users == {"u1", "u2"}
Products == {"p1"}
Quantities == {1}
Prices == {5}

StartTime == 1000000000
GracePeriodMs == 60000
StuckCheckoutMs == 300000
FailedRetentionMs == 3600000
CartExpiryMs == 86400000
ContextExpiryMs == 1800000
Deltas == {GracePeriodMs - 1, GracePeriodMs, StuckCheckoutMs + 1, FailedRetentionMs + 1, CartExpiryMs + 1}

Undefined == -1

\* the number NaN: a code outside the numbers used, compared only through
\* JsLess and IsInteger
NaN == -999

PENDING == "pending"
IN_PROGRESS == "in_progress"
COMPLETED == "completed"
FAILED == "failed"
SYNCED == "synced"

CART_NOT_FOUND == "Cart not found or already checked out"
ITEM_NOT_FOUND == "Item not found in cart"
EMPTY_CART == "Cannot checkout an empty cart"
CART_ALREADY_CHECKED_OUT == "Cart already checked out"
CHECKOUT_IN_PROGRESS == "Checkout already in progress"
PROVIDER_CHECKOUT_FAILED == "Provider checkout failed"
CART_SYNC_VALIDATION_FAILED_ITEM_COUNT == "Cart sync validation failed: item count mismatch"
CART_SYNC_VALIDATION_FAILED_ITEM_MISMATCH == "Cart sync validation failed: item mismatch"
CONTEXT_EXPIRED == "External provider context expired"
PROVIDER_ERROR == "External provider error"
CHECKOUT_TIMEOUT == "Checkout timeout - please retry"
INVALID_ITEM_DATA == "Invalid item data"
QUANTITY_MUST_BE_INTEGER == "Quantity must be an integer >= 1"

VARIABLES
  now,          \* Date.now()
  ticks,        \* number of clock advances so far
  queues,       \* CartOperationQueue.queues: user -> tail task (0: no entry)
  tasks,        \* every promise chain built by enqueue, in submission order
  cartStore,    \* CartStore.carts: user -> Cart object (0: absent)
  carts,        \* the Cart objects ever created
  contextStore, \* ProviderContextStore.contexts: user -> context or NoContext
  sessions,     \* SalesforceCommerceProvider.carts: contextId -> session
  gets,         \* getCart calls made outside the queue (GET /:userId)
  orderLog      \* history: completed results returned by provider.checkout

vars == <<now, ticks, queues, tasks, cartStore, carts, contextStore, sessions, gets, orderLog>>

(***************************************************************************)
(* Values.                                                                 *)
(***************************************************************************)
\* a CartItem (name and type are carried along unchanged and left out)
Item(productId, quantity, price) ==
  [productId |-> productId, quantity |-> quantity, price |-> price]

\* items: []
NoItems == <<>>

\* items.findIndex(i => i.productId === productId), 0 for -1
FindIndex(items, productId) ==
  IF \E i \in 1..Len(items) : items[i].productId = productId
  THEN CHOOSE i \in 1..Len(items) :
         /\ items[i].productId = productId
         /\ \A j \in 1..(i - 1) : items[j].productId # productId
  ELSE 0

\* items.splice(index, 1)
Splice(items, index) ==
  [i \in 1..(Len(items) - 1) |-> IF i < index THEN items[i] ELSE items[i + 1]]

\* existingIndex >= 0 ? items[existingIndex] = item : items.push(item)
ReplaceOrPush(items, item) ==
  IF FindIndex(items, item.productId) > 0
  THEN [items EXCEPT ![FindIndex(items, item.productId)] = item]
  ELSE Append(items, item)

NoResult == [status |-> "none", orderId |-> 0, error |-> ""]

NoContext == [contextId |-> 0, expiresAt |-> 0, isExpired |-> FALSE]

FailedResult(msg) == [status |-> FAILED, orderId |-> 0, error |-> msg]

CompletedResult(order) == [status |-> COMPLETED, orderId |-> order, error |-> ""]

ItemCount(items) == Len(items)

NewCart(userId) ==
  [userId |-> userId, items |-> NoItems, lastAccessedAt |-> now,
   externalCartId |-> 0, syncStatus |-> SYNCED, lastSyncError |-> "",
   checkoutStatus |-> PENDING, checkoutStartedAt |-> Undefined,
   checkoutResult |-> NoResult, checkoutError |-> "", taxContext |-> ""]

NewTask(userId, kind, product, qty, price, prev) ==
  [user |-> userId, kind |-> kind, product |-> product, qty |-> qty, price |-> price,
   prev |-> prev,
   st |-> "queued", pc |-> "start", cart |-> 0, ctx |-> 0,
   ran |-> FALSE, ok |-> FALSE, errOf |-> 0, error |-> "",
   result |-> NoResult, extCalls |-> 0,
   before |-> NoItems, after |-> NoItems, fault |-> "", seen |-> <<>>]

TaskIds == 1..Len(tasks)

Init ==
  /\ now = StartTime
  /\ ticks = 0
  /\ queues = [u \in Users |-> 0]
  /\ tasks = <<>>
  /\ cartStore = [u \in Users |-> 0]
  /\ carts = <<>>
  /\ contextStore = [u \in Users |-> NoContext]
  /\ sessions = <<>>
  /\ gets = <<>>
  /\ orderLog = <<>>

(***************************************************************************)
(* Scheduling: single-threaded event loop.  An await on an in-memory store *)
(* or on an already settled promise resumes in a microtask; an await on an *)
(* external capability call resumes when the call returns.  The clock and  *)
(* the timer of the cleanup service advance only between macrotasks: when  *)
(* every flow is settled, waiting behind a pending task of its user, or    *)
(* suspended on an external capability call.                               *)
(***************************************************************************)
ExternalPcs == {"sync", "createCart", "getCart", "checkout"}

TaskSuspended(t) ==
  \/ tasks[t].st = "settled"
  \/ tasks[t].st = "running" /\ tasks[t].pc \in ExternalPcs
  \/ /\ tasks[t].st = "queued"
     /\ tasks[t].prev # 0
     /\ tasks[tasks[t].prev].st # "settled"

\* A direct getCart resumes from `await this.cartStore.get(userId)` one
\* microtask after the call.  Ahead of it in the microtask queue are only the
\* then-callbacks already pending at the call (StartOp, SkipOp); what those
\* schedule, and every return of an external capability call, comes after it.
GetsDone == \A g \in 1..Len(gets) : gets[g].pc = "done"

Quiescent ==
  /\ \A t \in 1..Len(tasks) : TaskSuspended(t)
  /\ GetsDone

\* A call of the cart API comes from a request handler or from a burst of
\* calls made in one synchronous stretch: no operation is then in the middle
\* of a run of microtasks.
Callable ==
  \A t \in 1..Len(tasks) : tasks[t].st = "running" => tasks[t].pc \in ExternalPcs

\* A CartStore handed to the service with a cart already in it, left in
\* in_progress: what the tests build by writing the store directly.
SeedStartedAt == {StartTime, Undefined}

InitSeeded ==
  /\ now = StartTime
  /\ ticks = 0
  /\ queues = [u \in Users |-> 0]
  /\ tasks = <<>>
  /\ cartStore = [u \in Users |-> IF u = "u1" THEN 1 ELSE 0]
  /\ \E startedAt \in SeedStartedAt :
       carts = <<[NewCart("u1") EXCEPT !.items = <<Item("p1", 1, 5)>>,
                                      !.checkoutStatus = IN_PROGRESS,
                                      !.checkoutStartedAt = startedAt]>>
  /\ contextStore = [u \in Users |-> NoContext]
  /\ sessions = <<>>
  /\ gets = <<>>
  /\ orderLog = <<>>

Tick ==
  /\ ticks < MaxTicks
  /\ Quiescent
  /\ \E d \in Deltas : now' = now + d
  /\ ticks' = ticks + 1
  /\ UNCHANGED <<queues, tasks, cartStore, carts, contextStore, sessions, gets, orderLog>>

(***************************************************************************)
(* CartOperationQueue.enqueue:                                             *)
(*   previousOp = queues.get(userId) || Promise.resolve()                  *)
(*   currentOp  = previousOp.then(() => operation())                       *)
(*                          .catch(err => { log; throw err })              *)
(*                          .finally(() => { if (queues.get(userId) ===    *)
(*                                currentOp) queues.delete(userId) })      *)
(*   queues.set(userId, currentOp)                                         *)
(* A task is "queued" until previousOp settles and the then-callback runs, *)
(* "running" while its operation runs and "settled" once the outcome went  *)
(* through catch() and the finally callback has run.                       *)
(***************************************************************************)
\* faulty variant: every chain starts from Promise.resolve()
PreviousOpNone(userId) == 0

\* faulty variant: one chain shared by every key
PreviousOpGlobal(userId) == Len(tasks)

PreviousOp(userId) == queues[userId]

Enqueue(userId, kind, product, qty, price) ==
  /\ Len(tasks) < MaxTasks
  /\ Callable
  /\ tasks' = Append(tasks, NewTask(userId, kind, product, qty, price, PreviousOp(userId)))
  /\ queues' = [queues EXCEPT ![userId] = Len(tasks) + 1]
  /\ UNCHANGED <<now, ticks, cartStore, carts, contextStore, sessions, gets, orderLog>>

\* previousOp is fulfilled: the then-callback calls operation()
PreviousFulfilled(t) ==
  IF tasks[t].prev = 0 THEN TRUE
  ELSE tasks[tasks[t].prev].st = "settled" /\ tasks[tasks[t].prev].ok

\* previousOp is rejected: then() passes the rejection on without calling operation()
PreviousRejected(t) ==
  IF tasks[t].prev = 0 THEN FALSE
  ELSE tasks[tasks[t].prev].st = "settled" /\ ~tasks[tasks[t].prev].ok

\* faulty variant: the finally callback deletes the entry without comparing it
QueueAfterFinallyAlways(t) == [queues EXCEPT ![tasks[t].user] = 0]

\* the finally callback of currentOp
QueueAfterFinally(t) ==
  IF queues[tasks[t].user] = t THEN [queues EXCEPT ![tasks[t].user] = 0] ELSE queues

\* the operation returned `result` (a CheckoutResult for checkout)
Resolved(task, result) ==
  [task EXCEPT !.st = "settled", !.pc = "done", !.ok = TRUE, !.result = result]

\* the operation of task t threw `msg`, which catch() rethrows
Rejected(task, t, msg) ==
  [task EXCEPT !.st = "settled", !.pc = "done", !.ok = FALSE, !.errOf = t, !.error = msg]

\* a < b on JavaScript numbers: false when either side is NaN
JsLess(a, b) == a # NaN /\ b # NaN /\ a < b

\* Number.isInteger(n); the numbers of the model other than NaN are integers
IsInteger(n) == n # NaN

\* validateCartItem: an error is recorded when productId is missing, when
\* quantity < 1 || !Number.isInteger(quantity), when price < 0
\* (name and type, checked the same way, are left out)
ValidCartItem(item) ==
  /\ item.productId # ""
  /\ ~(JsLess(item.quantity, 1) \/ ~IsInteger(item.quantity))
  /\ ~JsLess(item.price, 0)

\* validateQuantityUpdate: throws when quantity < 1 || !Number.isInteger(quantity)
ValidQuantityUpdate(quantity) == ~(JsLess(quantity, 1) \/ ~IsInteger(quantity))

\* the ValidationError thrown at the head of addItem / updateItemQuantity, "" when none
ValidationFailure(task) ==
  IF task.kind = "addItem" /\ ~ValidCartItem(Item(task.product, task.qty, task.price))
  THEN INVALID_ITEM_DATA
  ELSE IF task.kind = "updateItemQuantity" /\ ~ValidQuantityUpdate(task.qty)
  THEN QUANTITY_MUST_BE_INTEGER
  ELSE ""

\* operation() is called: it runs up to its first await, whose operand is
\* this.cartStore.get(userId) in addItem / updateItemQuantity / removeItem (via
\* getCart), clearCart and checkout; the validation ahead of it may throw
StartOp(t) ==
  /\ tasks[t].st = "queued"
  /\ PreviousFulfilled(t)
  /\ IF ValidationFailure(tasks[t]) # ""
     THEN /\ tasks' = [tasks EXCEPT ![t] =
                         Rejected([@ EXCEPT !.ran = TRUE], t, ValidationFailure(tasks[t]))]
          /\ queues' = QueueAfterFinally(t)
     ELSE /\ tasks' = [tasks EXCEPT ![t].st = "running", ![t].ran = TRUE,
                                    ![t].cart = cartStore[tasks[t].user],
                                    ![t].pc = IF tasks[t].kind = "checkout" THEN "guard"
                                              ELSE "apply"]
          /\ UNCHANGED queues
  /\ UNCHANGED <<now, ticks, cartStore, carts, contextStore, sessions, gets, orderLog>>

\* the rejection of previousOp falls through then() into catch(), which rethrows it
SkipOp(t) ==
  /\ tasks[t].st = "queued"
  /\ PreviousRejected(t)
  /\ tasks' = [tasks EXCEPT ![t].st = "settled", ![t].pc = "done", ![t].ok = FALSE,
                            ![t].errOf = tasks[tasks[t].prev].errOf,
                            ![t].error = tasks[tasks[t].prev].error]
  /\ queues' = QueueAfterFinally(t)
  /\ UNCHANGED <<now, ticks, cartStore, carts, contextStore, sessions, gets, orderLog>>

(***************************************************************************)
(* CartStore and ProviderContextStore.                                     *)
(***************************************************************************)
\* faulty variant: a write of the cart reopens it
TouchedReopens(cart) == [cart EXCEPT !.lastAccessedAt = now, !.checkoutStatus = PENDING]

\* CartStore.update: bumps updatedAt / lastAccessedAt of the object (and stores it)
Touched(cart) == [cart EXCEPT !.lastAccessedAt = now]

\* faulty variant: the expired flag is not looked at
ContextExpiredByTimeOnly(context) == context.expiresAt < now

\* context.isExpired || context.expiresAt < new Date()
ContextExpired(context) == context.isExpired \/ context.expiresAt < now

\* ProviderContextStore.get: the value returned
ContextStoreGet(userId) ==
  IF contextStore[userId] = NoContext \/ ContextExpired(contextStore[userId])
  THEN NoContext ELSE contextStore[userId]

\* ProviderContextStore.get: the store afterwards (expired entry removed)
ContextStoreAfterGet(userId) ==
  IF contextStore[userId] # NoContext /\ ContextExpired(contextStore[userId])
  THEN [contextStore EXCEPT ![userId] = NoContext] ELSE contextStore

\* ProviderContextStore.exists: (await this.get(userId)) !== null
ContextStoreExists(userId) == ContextStoreGet(userId) # NoContext

(***************************************************************************)
(* SalesforceCommerceProvider (the external commerce capability).          *)
(* A session is found by getCartByContext when it is in the map and not    *)
(* past expiresAt; an expired one is deleted by the lookup.                *)
(***************************************************************************)
SessionKnown(contextId) == contextId \in 1..Len(sessions) /\ sessions[contextId].live

SessionExpired(contextId) == now > sessions[contextId].expiresAt

SessionUsable(contextId) == SessionKnown(contextId) /\ ~SessionExpired(contextId)

\* getCartByContext / validateContext: provider map after the lookup
SessionsAfterLookup(contextId) ==
  IF SessionKnown(contextId) /\ SessionExpired(contextId)
  THEN [sessions EXCEPT ![contextId].live = FALSE] ELSE sessions

\* faulty variant: the session is created empty
NewSessionEmpty(userId, items) ==
  [userId |-> userId, items |-> NoItems, expiresAt |-> now + ContextExpiryMs, live |-> TRUE]

\* createCart: the SalesforceCart stored and the ExternalCartContext returned
NewSession(userId, items) ==
  [userId |-> userId, items |-> items, expiresAt |-> now + ContextExpiryMs, live |-> TRUE]

NewContext(contextId) ==
  [contextId |-> contextId, expiresAt |-> now + ContextExpiryMs, isExpired |-> FALSE]

\* A ProviderContextStore handed to the service with a handle already in it
\* for a live session of the provider: flagged expired or not, with an
\* expiry time before, at or after the present.
SeedExpiresAt == {StartTime - 1, StartTime, StartTime + ContextExpiryMs}

InitHandles ==
  /\ now = StartTime
  /\ ticks = 0
  /\ queues = [u \in Users |-> 0]
  /\ tasks = <<>>
  /\ cartStore = [u \in Users |-> 0]
  /\ carts = <<>>
  /\ \E e \in SeedExpiresAt, f \in BOOLEAN :
       contextStore = [u \in Users |->
                         IF u = "u1" THEN [contextId |-> 1, expiresAt |-> e, isExpired |-> f]
                         ELSE NoContext]
  /\ sessions = <<NewSession("u1", NoItems)>>
  /\ gets = <<>>
  /\ orderLog = <<>>

(***************************************************************************)
(* CartService: reconciliation (syncToExternalProvider).                   *)
(***************************************************************************)
\* faulty variant: a line present externally with another quantity is not sent again
FindItemsToAddAbsentOnly(localItems, externalItems) ==
  SelectSeq(localItems, LAMBDA l : FindIndex(externalItems, l.productId) = 0)

FindItemsToAdd(localItems, externalItems) ==
  SelectSeq(localItems,
            LAMBDA l : \/ FindIndex(externalItems, l.productId) = 0
                       \/ \E i \in 1..Len(externalItems) :
                            /\ externalItems[i].productId = l.productId
                            /\ externalItems[i].quantity # l.quantity)

\* faulty variant: items gone locally are never removed from the session
FindItemsToRemoveNone(localItems, externalItems) == <<>>

FindItemsToRemove(localItems, externalItems) ==
  SelectSeq(externalItems, LAMBDA e : FindIndex(localItems, e.productId) = 0)

\* SalesforceCommerceProvider.removeItem / addItem on the items of a session
ProviderRemoveItem(items, productId) ==
  IF FindIndex(items, productId) > 0 THEN Splice(items, FindIndex(items, productId))
  ELSE items

ProviderAddItem(items, item) ==
  IF FindIndex(items, item.productId) > 0
  THEN [items EXCEPT ![FindIndex(items, item.productId)] = item]
  ELSE Append(items, item)

\* for (const item of itemsToRemove) await provider.removeItem(...)
RECURSIVE RemoveAll(_, _)
RemoveAll(externalItems, itemsToRemove) ==
  IF itemsToRemove = <<>> THEN externalItems
  ELSE RemoveAll(ProviderRemoveItem(externalItems, Head(itemsToRemove).productId),
                 Tail(itemsToRemove))

\* for (const item of itemsToAdd) await provider.addItem(...)
RECURSIVE AddAll(_, _)
AddAll(externalItems, itemsToAdd) ==
  IF itemsToAdd = <<>> THEN externalItems
  ELSE AddAll(ProviderAddItem(externalItems, Head(itemsToAdd)), Tail(itemsToAdd))

\* external items after the removals and then the additions were replayed
Reconciled(localItems, externalItems) ==
  AddAll(RemoveAll(externalItems, FindItemsToRemove(localItems, externalItems)),
         FindItemsToAdd(localItems, externalItems))

\* the provider call of a reconciliation pass that throws
SyncFaults == {"none", "createCart", "validateContext", "getCart", "removeItem", "addItem"}

\* faulty variant: only the number of lines is compared
ValidateCartMatchCountOnly(localItems, externalItems) ==
  IF Len(localItems) # Len(externalItems)
  THEN CART_SYNC_VALIDATION_FAILED_ITEM_COUNT
  ELSE ""

\* validateCartMatch: "" when the external items match, else the error thrown
ValidateCartMatch(localItems, externalItems) ==
  IF Len(localItems) # Len(externalItems)
  THEN CART_SYNC_VALIDATION_FAILED_ITEM_COUNT
  ELSE IF \E i \in 1..Len(localItems) :
            \/ FindIndex(externalItems, localItems[i].productId) = 0
            \/ externalItems[FindIndex(externalItems, localItems[i].productId)].quantity
                 # localItems[i].quantity
  THEN CART_SYNC_VALIDATION_FAILED_ITEM_MISMATCH
  ELSE ""

(***************************************************************************)
(* CartService: addItem, updateItemQuantity, removeItem, clearCart (inside *)
(* the user's queue).                                                      *)
(***************************************************************************)
MutatingKinds == {"addItem", "updateItemQuantity", "removeItem", "clearCart"}

\* the item list after the change of the operation; index is the line found
ChangedItems(task, items, index) ==
  IF task.kind = "addItem" THEN ReplaceOrPush(items, Item(task.product, task.qty, task.price))
  ELSE IF task.kind = "updateItemQuantity" THEN [items EXCEPT ![index].quantity = task.qty]
  ELSE Splice(items, index)

\* rest of getCart (create + set, or touch + update), then the item change and update
OpApply(t) ==
  /\ GetsDone
  /\ tasks[t].st = "running" /\ tasks[t].pc = "apply"
  /\ tasks[t].kind \in {"addItem", "updateItemQuantity", "removeItem"}
  /\ LET u == tasks[t].user
         c == IF tasks[t].cart = 0 THEN Len(carts) + 1 ELSE tasks[t].cart
         base == IF tasks[t].cart = 0 THEN Append(carts, NewCart(u))
                 ELSE [carts EXCEPT ![c] = Touched(@)]
         index == FindIndex(base[c].items, tasks[t].product)
     IN /\ cartStore' = [cartStore EXCEPT ![u] = c]
        /\ IF tasks[t].kind # "addItem" /\ index = 0
           THEN /\ carts' = base
                /\ tasks' = [tasks EXCEPT ![t] =
                               Rejected([@ EXCEPT !.cart = c, !.before = base[c].items,
                                                  !.after = base[c].items],
                                        t, ITEM_NOT_FOUND)]
           ELSE /\ carts' = [base EXCEPT ![c].items = ChangedItems(tasks[t], @, index)]
                /\ tasks' = [tasks EXCEPT ![t].cart = c, ![t].pc = "sync",
                                          ![t].before = base[c].items,
                                          ![t].after = ChangedItems(tasks[t], base[c].items,
                                                                    index)]
  /\ queues' = IF tasks'[t].st = "settled" THEN QueueAfterFinally(t) ELSE queues
  /\ UNCHANGED <<now, ticks, contextStore, sessions, gets, orderLog>>

\* clearCart after its cartStore.get
ClearApply(t) ==
  /\ GetsDone
  /\ tasks[t].st = "running" /\ tasks[t].pc = "apply"
  /\ tasks[t].kind = "clearCart"
  /\ LET u == tasks[t].user
         c == tasks[t].cart
     IN IF c = 0
        THEN /\ tasks' = [tasks EXCEPT ![t] = Rejected(@, t, CART_NOT_FOUND)]
             /\ UNCHANGED <<cartStore, carts, contextStore>>
        ELSE /\ carts' = [carts EXCEPT ![c] = [Touched(@) EXCEPT !.items = NoItems]]
             /\ cartStore' = [cartStore EXCEPT ![u] = c]
             /\ contextStore' = [contextStore EXCEPT ![u] = NoContext]
             /\ tasks' = [tasks EXCEPT ![t] =
                            Resolved([@ EXCEPT !.before = carts[c].items], NoResult)]
  /\ queues' = QueueAfterFinally(t)
  /\ UNCHANGED <<now, ticks, sessions, gets, orderLog>>

\* setTaxContext: getCart, cart.taxContext = taxContext, cartStore.update,
\* return cart (the task carries the tax context in its product field)
TaxApply(t) ==
  /\ GetsDone
  /\ tasks[t].st = "running" /\ tasks[t].pc = "apply"
  /\ tasks[t].kind = "setTaxContext"
  /\ LET u == tasks[t].user
         c == IF tasks[t].cart = 0 THEN Len(carts) + 1 ELSE tasks[t].cart
         base == IF tasks[t].cart = 0 THEN Append(carts, NewCart(u))
                 ELSE [carts EXCEPT ![c] = Touched(@)]
     IN /\ cartStore' = [cartStore EXCEPT ![u] = c]
        /\ carts' = [base EXCEPT ![c].taxContext = tasks[t].product]
        /\ tasks' = [tasks EXCEPT ![t] =
                       Resolved([@ EXCEPT !.cart = c, !.before = base[c].items,
                                          !.after = base[c].items], NoResult)]
  /\ queues' = QueueAfterFinally(t)
  /\ UNCHANGED <<now, ticks, contextStore, sessions, gets, orderLog>>

\* faulty variant: the catch block swallows the error without recording it
SyncFailedSilently(cart, fault) == cart

\* catch block of syncToExternalProvider: mark the cart as needing a resync
SyncFailed(cart, fault) ==
  [cart EXCEPT !.syncStatus = PENDING,
               !.lastSyncError = IF fault = "getCart" THEN CONTEXT_EXPIRED
                                 ELSE PROVIDER_ERROR]

\* syncToExternalProvider(cart), then `return cart`
OpSync(t) ==
  /\ GetsDone
  /\ tasks[t].st = "running" /\ tasks[t].pc = "sync"
  /\ \E fault \in SyncFaults :
       LET u == tasks[t].user
           c == tasks[t].cart
           stored == ContextStoreGet(u)
           store1 == ContextStoreAfterGet(u)
           validated == stored # NoContext /\ fault # "validateContext"
           reuse == validated /\ SessionUsable(stored.contextId)
           sess1 == IF validated THEN SessionsAfterLookup(stored.contextId) ELSE sessions
           created == ~reuse /\ fault \notin {"createCart", "validateContext"}
           ctxId == IF reuse THEN stored.contextId ELSE Len(sess1) + 1
           sess2 == IF created THEN Append(sess1, NewSession(u, carts[c].items)) ELSE sess1
           store2 == IF created THEN [store1 EXCEPT ![u] = NewContext(ctxId)] ELSE store1
           read == (reuse \/ created) /\ fault # "getCart"
           itemsToAdd == IF read THEN FindItemsToAdd(carts[c].items, sess2[ctxId].items)
                         ELSE <<>>
           itemsToRemove == IF read THEN FindItemsToRemove(carts[c].items, sess2[ctxId].items)
                            ELSE <<>>
           failed == fault # "none"
           sess3 == IF ~read \/ fault = "removeItem" THEN sess2
                    ELSE IF fault = "addItem"
                    THEN [sess2 EXCEPT ![ctxId].items = RemoveAll(@, itemsToRemove)]
                    ELSE [sess2 EXCEPT ![ctxId].items = Reconciled(carts[c].items, @)]
           cart1 == IF created THEN [carts[c] EXCEPT !.externalCartId = ctxId] ELSE carts[c]
           cart2 == IF failed THEN SyncFailed(cart1, fault)
                    ELSE [cart1 EXCEPT !.syncStatus = SYNCED]
       IN /\ fault = "createCart" => ~reuse
          /\ fault = "validateContext" => stored # NoContext
          /\ fault = "removeItem" => itemsToRemove # <<>>
          /\ fault = "addItem" => itemsToAdd # <<>>
          /\ contextStore' = store2
          /\ sessions' = sess3
          /\ carts' = [carts EXCEPT ![c] = cart2]
          /\ tasks' = [tasks EXCEPT ![t] =
                         Resolved([@ EXCEPT !.extCalls = @ + 1, !.fault = fault], NoResult)]
  /\ queues' = QueueAfterFinally(t)
  /\ UNCHANGED <<now, ticks, cartStore, gets, orderLog>>

(***************************************************************************)
(* CartService.checkout, one action per stretch between suspension points. *)
(***************************************************************************)
\* faulty variant: the grace period compared with <=
WithinGraceInclusive(cart) ==
  cart.checkoutStartedAt # Undefined /\ now - cart.checkoutStartedAt <= GracePeriodMs

\* elapsed = checkoutStartedAt ? Date.now() - checkoutStartedAt.getTime() : Infinity
WithinGrace(cart) ==
  cart.checkoutStartedAt # Undefined /\ now - cart.checkoutStartedAt < GracePeriodMs

\* faulty variant: no short-circuit on a completed cart
GuardResultNoCompletedGuard(c) ==
  IF c = 0 THEN FailedResult(CART_NOT_FOUND)
  ELSE IF carts[c].checkoutStatus = IN_PROGRESS /\ WithinGrace(carts[c])
       THEN FailedResult(CHECKOUT_IN_PROGRESS)
  ELSE IF ItemCount(carts[c].items) = 0 THEN FailedResult(EMPTY_CART)
  ELSE NoResult

\* faulty variant: the completed short-circuit ignores the cached result
GuardResultNeverCached(c) ==
  IF c = 0 THEN FailedResult(CART_NOT_FOUND)
  ELSE IF carts[c].checkoutStatus = COMPLETED THEN FailedResult(CART_ALREADY_CHECKED_OUT)
  ELSE IF carts[c].checkoutStatus = IN_PROGRESS /\ WithinGrace(carts[c])
       THEN FailedResult(CHECKOUT_IN_PROGRESS)
  ELSE IF ItemCount(carts[c].items) = 0 THEN FailedResult(EMPTY_CART)
  ELSE NoResult

\* faulty variant: no check for an empty cart
GuardResultNoEmptyCheck(c) ==
  IF c = 0 THEN FailedResult(CART_NOT_FOUND)
  ELSE IF carts[c].checkoutStatus = COMPLETED
       THEN IF carts[c].checkoutResult # NoResult THEN carts[c].checkoutResult
            ELSE FailedResult(CART_ALREADY_CHECKED_OUT)
  ELSE IF carts[c].checkoutStatus = IN_PROGRESS /\ WithinGrace(carts[c])
       THEN FailedResult(CHECKOUT_IN_PROGRESS)
  ELSE NoResult

\* what the guards at the head of checkout return early, NoResult when they pass
GuardResult(c) ==
  IF c = 0 THEN FailedResult(CART_NOT_FOUND)
  ELSE IF carts[c].checkoutStatus = COMPLETED
       THEN IF carts[c].checkoutResult # NoResult THEN carts[c].checkoutResult
            ELSE FailedResult(CART_ALREADY_CHECKED_OUT)
  ELSE IF carts[c].checkoutStatus = IN_PROGRESS /\ WithinGrace(carts[c])
       THEN FailedResult(CHECKOUT_IN_PROGRESS)
  ELSE IF ItemCount(carts[c].items) = 0 THEN FailedResult(EMPTY_CART)
  ELSE NoResult

\* faulty variant: the in_progress mark is not made before the external calls
MarkedInProgressLate(cart) == Touched(cart)

\* STEP 1: cart marked in_progress and stored before any external call
MarkedInProgress(cart) ==
  [Touched(cart) EXCEPT !.checkoutStatus = IN_PROGRESS, !.checkoutStartedAt = now]

\* faulty variant: the error is recorded but the status is not rolled back
MarkedFailedStatusKept(cart, msg) ==
  [Touched(cart) EXCEPT !.checkoutError = msg]

\* faulty variant: the status is rolled back but the error is not recorded
MarkedFailedNoError(cart, msg) ==
  [Touched(cart) EXCEPT !.checkoutStatus = FAILED]

\* the catch block of checkout (and the provider-failure branch): rollback to failed
MarkedFailed(cart, msg) ==
  [Touched(cart) EXCEPT !.checkoutStatus = FAILED, !.checkoutError = msg]

\* faulty variant: the result is cached but the status is left as it was
MarkedCompletedUnmarked(cart, result) ==
  [Touched(cart) EXCEPT !.checkoutResult = result]

\* faulty variant: the status is set but the result is not cached
MarkedCompletedNoResult(cart, result) ==
  [Touched(cart) EXCEPT !.checkoutStatus = COMPLETED]

\* STEP 8: cart marked completed with the result cached
MarkedCompleted(cart, result) ==
  [Touched(cart) EXCEPT !.checkoutStatus = COMPLETED, !.checkoutResult = result]

CheckoutGuard(t) ==
  /\ GetsDone
  /\ tasks[t].st = "running" /\ tasks[t].pc = "guard"
  /\ LET u == tasks[t].user
         c == tasks[t].cart
     IN IF GuardResult(c) # NoResult
        THEN /\ tasks' = [tasks EXCEPT ![t] = Resolved(@, GuardResult(c))]
             /\ queues' = QueueAfterFinally(t)
             /\ UNCHANGED <<cartStore, carts>>
        ELSE /\ carts' = [carts EXCEPT ![c] = MarkedInProgress(@)]
             /\ cartStore' = [cartStore EXCEPT ![u] = c]
             /\ tasks' = [tasks EXCEPT ![t].pc = "createCart"]
             /\ UNCHANGED queues
  /\ UNCHANGED <<now, ticks, contextStore, sessions, gets, orderLog>>

\* a throw inside the try block: rollback, store, return a failed result
\* (seen: the item list provider.getCart had returned, if it did)
CheckoutCaught(t, msg, newSessions, seen) ==
  /\ carts' = [carts EXCEPT ![tasks[t].cart] = MarkedFailed(@, msg)]
  /\ cartStore' = [cartStore EXCEPT ![tasks[t].user] = tasks[t].cart]
  /\ sessions' = newSessions
  /\ tasks' = [tasks EXCEPT ![t] = Resolved([@ EXCEPT !.extCalls = @ + 1, !.seen = seen],
                                            FailedResult(msg))]
  /\ queues' = QueueAfterFinally(t)

\* STEP 3: createAndSyncContext (provider.createCart, contextStore.set)
CheckoutCreate(t) ==
  /\ GetsDone
  /\ tasks[t].st = "running" /\ tasks[t].pc = "createCart"
  /\ LET u == tasks[t].user
         c == tasks[t].cart
         id == Len(sessions) + 1
     IN \/ /\ sessions' = Append(sessions, NewSession(u, carts[c].items))
           /\ contextStore' = [contextStore EXCEPT ![u] = NewContext(id)]
           /\ carts' = [carts EXCEPT ![c].externalCartId = id]
           /\ tasks' = [tasks EXCEPT ![t].ctx = id, ![t].pc = "getCart", ![t].extCalls = @ + 1]
           /\ UNCHANGED <<queues, cartStore>>
        \/ /\ CheckoutCaught(t, PROVIDER_ERROR, sessions, <<>>)
           /\ UNCHANGED contextStore
  /\ UNCHANGED <<now, ticks, gets, orderLog>>

\* what provider.getCart may return for a session holding `items`: the
\* items, or a list the external capability holds instead, one line short
\* or with another quantity on its first line
SessionReads(items) ==
  {items}
    \cup (IF items = NoItems THEN {}
          ELSE {SubSeq(items, 1, Len(items) - 1),
                [items EXCEPT ![1].quantity = @ + 1]})

\* STEP 4: provider.getCart and validateCartMatch
CheckoutVerify(t) ==
  /\ GetsDone
  /\ tasks[t].st = "running" /\ tasks[t].pc = "getCart"
  /\ LET c == tasks[t].cart
         ctx == tasks[t].ctx
     IN IF ~SessionUsable(ctx)
        THEN CheckoutCaught(t, CONTEXT_EXPIRED, SessionsAfterLookup(ctx), <<>>)
        ELSE \/ \E externalItems \in SessionReads(sessions[ctx].items) :
                  IF ValidateCartMatch(carts[c].items, externalItems) # ""
                  THEN CheckoutCaught(t, ValidateCartMatch(carts[c].items, externalItems),
                                      sessions, <<externalItems>>)
                  ELSE /\ tasks' = [tasks EXCEPT ![t].pc = "checkout", ![t].extCalls = @ + 1,
                                                 ![t].seen = <<externalItems>>]
                       /\ UNCHANGED <<queues, cartStore, carts, sessions>>
             \/ CheckoutCaught(t, PROVIDER_ERROR, sessions, <<>>)
  /\ UNCHANGED <<now, ticks, contextStore, gets, orderLog>>

\* SalesforceCommerceProvider.checkout: the tagged result and the provider map afterwards
ProviderCheckoutResult(ctx, orderId) ==
  IF ~SessionUsable(ctx) THEN FailedResult(CONTEXT_EXPIRED)
  ELSE IF ItemCount(sessions[ctx].items) = 0 THEN FailedResult(EMPTY_CART)
  ELSE CompletedResult(orderId)

\* faulty variant: the session is left in the map after a completed checkout
SessionsAfterCheckoutKept(ctx) == SessionsAfterLookup(ctx)

SessionsAfterCheckout(ctx) ==
  IF ~SessionUsable(ctx) THEN SessionsAfterLookup(ctx)
  ELSE IF ItemCount(sessions[ctx].items) = 0 THEN sessions
  ELSE [sessions EXCEPT ![ctx].live = FALSE]

\* STEPS 5-8: provider.checkout, then the failed branch or the completed mark
CheckoutAfterProvider(t, providerResult) ==
  LET u == tasks[t].user
      c == tasks[t].cart
  IN /\ cartStore' = [cartStore EXCEPT ![u] = c]
     /\ IF providerResult.status = FAILED
        THEN /\ carts' = [carts EXCEPT ![c] = MarkedFailed(@, providerResult.error)]
             /\ tasks' = [tasks EXCEPT ![t] =
                            Resolved([@ EXCEPT !.extCalls = @ + 1],
                                     FailedResult(providerResult.error))]
             /\ queues' = QueueAfterFinally(t)
             /\ UNCHANGED orderLog
        ELSE /\ carts' = [carts EXCEPT ![c] = MarkedCompleted(@, providerResult)]
             /\ tasks' = [tasks EXCEPT ![t].pc = "cleanup", ![t].extCalls = @ + 1,
                                       ![t].result = providerResult]
             /\ orderLog' = Append(orderLog, [orderId |-> providerResult.orderId, cart |-> c,
                                              task |-> t, ctx |-> tasks[t].ctx])
             /\ UNCHANGED queues

CheckoutProvider(t) ==
  /\ GetsDone
  /\ tasks[t].st = "running" /\ tasks[t].pc = "checkout"
  /\ \/ /\ CheckoutAfterProvider(t, ProviderCheckoutResult(tasks[t].ctx, Len(orderLog) + 1))
        /\ sessions' = SessionsAfterCheckout(tasks[t].ctx)
     \/ /\ CheckoutAfterProvider(t, FailedResult(PROVIDER_CHECKOUT_FAILED))
        /\ UNCHANGED sessions
  /\ UNCHANGED <<now, ticks, contextStore, gets>>

\* STEP 9: best-effort cleanup; a delete that throws is logged and swallowed
CleanupFaults == {"none", "cartStore.delete", "contextStore.delete"}

CheckoutCleanup(t) ==
  /\ GetsDone
  /\ tasks[t].st = "running" /\ tasks[t].pc = "cleanup"
  /\ \E fault \in CleanupFaults :
       /\ cartStore' = IF fault = "cartStore.delete" THEN cartStore
                       ELSE [cartStore EXCEPT ![tasks[t].user] = 0]
       /\ contextStore' = IF fault = "none"
                          THEN [contextStore EXCEPT ![tasks[t].user] = NoContext]
                          ELSE contextStore
  /\ tasks' = [tasks EXCEPT ![t] = Resolved(@, tasks[t].result)]
  /\ queues' = QueueAfterFinally(t)
  /\ UNCHANGED <<now, ticks, carts, sessions, gets, orderLog>>

(***************************************************************************)
(* CartService.getCart called directly (GET /:userId, GET /:userId/summary)*)
(* runs outside the queue: cartStore.get, then create + set or touch +     *)
(* update after the await.                                                 *)
(***************************************************************************)
GetCartCall(userId) ==
  /\ Len(gets) < MaxGets
  /\ Callable
  /\ gets' = Append(gets, [user |-> userId, cart |-> cartStore[userId], pc |-> "write"])
  /\ UNCHANGED <<now, ticks, queues, tasks, cartStore, carts, contextStore, sessions, orderLog>>

GetCartWrite(g) ==
  /\ gets[g].pc = "write"
  /\ LET u == gets[g].user
         c == IF gets[g].cart = 0 THEN Len(carts) + 1 ELSE gets[g].cart
     IN /\ carts' = IF gets[g].cart = 0 THEN Append(carts, NewCart(u))
                    ELSE [carts EXCEPT ![c] = Touched(@)]
        /\ cartStore' = [cartStore EXCEPT ![u] = c]
        /\ gets' = [gets EXCEPT ![g].cart = c, ![g].pc = "done"]
  /\ UNCHANGED <<now, ticks, queues, tasks, contextStore, sessions, orderLog>>

(***************************************************************************)
(* CartCleanupService: cleanupExpiredCarts then cleanupExpiredContexts,    *)
(* one synchronous pass.                                                   *)
(***************************************************************************)
\* checkoutStartedAt?.getTime() || 0
StartedAtOrZero(cart) == IF cart.checkoutStartedAt = Undefined THEN 0 ELSE cart.checkoutStartedAt

SweepMarksFailed(cart) ==
  cart.checkoutStatus = IN_PROGRESS /\ now - StartedAtOrZero(cart) > StuckCheckoutMs

\* faulty variant: the stuck cart is marked without cartStore.update
SweptCartUntouched(cart) ==
  IF SweepMarksFailed(cart)
  THEN [cart EXCEPT !.checkoutStatus = FAILED, !.checkoutError = CHECKOUT_TIMEOUT]
  ELSE cart

\* the cart object after the pass looked at it
SweptCart(cart) ==
  IF SweepMarksFailed(cart)
  THEN [Touched(cart) EXCEPT !.checkoutStatus = FAILED, !.checkoutError = CHECKOUT_TIMEOUT]
  ELSE cart

\* faulty variant: a completed cart is deleted without its session handle
SweepDeletesCompletedCartOnly(cart) ==
  IF cart.checkoutStatus = COMPLETED THEN "cart"
  ELSE IF cart.checkoutStatus = FAILED /\ now - StartedAtOrZero(cart) > FailedRetentionMs
       THEN "cart"
  ELSE IF SweptCart(cart).lastAccessedAt < now - CartExpiryMs THEN "cart+context"
  ELSE ""

\* faulty variant: a failed cart is deleted at exactly one hour
SweepDeletesFailedInclusive(cart) ==
  IF cart.checkoutStatus = COMPLETED THEN "cart+context"
  ELSE IF cart.checkoutStatus = FAILED /\ now - StartedAtOrZero(cart) >= FailedRetentionMs
       THEN "cart"
  ELSE IF SweptCart(cart).lastAccessedAt < now - CartExpiryMs THEN "cart+context"
  ELSE ""

\* faulty variant: the inactivity rule leaves the session handle behind
SweepDeletesExpiredCartOnly(cart) ==
  IF cart.checkoutStatus = COMPLETED THEN "cart+context"
  ELSE IF cart.checkoutStatus = FAILED /\ now - StartedAtOrZero(cart) > FailedRetentionMs
       THEN "cart"
  ELSE IF SweptCart(cart).lastAccessedAt < now - CartExpiryMs THEN "cart"
  ELSE ""

\* faulty variant: a completed cart is left to the inactivity rule
SweepDeletesKeepsCompleted(cart) ==
  IF cart.checkoutStatus = FAILED /\ now - StartedAtOrZero(cart) > FailedRetentionMs
  THEN "cart"
  ELSE IF SweptCart(cart).lastAccessedAt < now - CartExpiryMs THEN "cart+context"
  ELSE ""

\* "cart+context": deleted with the context, "cart": cart only, "": kept
SweepDeletes(cart) ==
  IF cart.checkoutStatus = COMPLETED THEN "cart+context"
  ELSE IF cart.checkoutStatus = FAILED /\ now - StartedAtOrZero(cart) > FailedRetentionMs
       THEN "cart"
  ELSE IF SweptCart(cart).lastAccessedAt < now - CartExpiryMs THEN "cart+context"
  ELSE ""

StoredCarts == {cartStore[u] : u \in {v \in Users : cartStore[v] # 0}}

RunCleanup ==
  /\ Quiescent
  /\ carts' = [c \in 1..Len(carts) |->
                 IF c \in StoredCarts /\ SweepDeletes(carts[c]) = "" THEN SweptCart(carts[c])
                 ELSE carts[c]]
  /\ cartStore' = [u \in Users |->
                     IF cartStore[u] # 0 /\ SweepDeletes(carts[cartStore[u]]) # ""
                     THEN 0 ELSE cartStore[u]]
  /\ contextStore' = [u \in Users |->
                        IF \/ cartStore[u] # 0 /\ SweepDeletes(carts[cartStore[u]]) = "cart+context"
                           \/ contextStore[u] # NoContext /\ ContextExpired(contextStore[u])
                        THEN NoContext ELSE contextStore[u]]
  /\ <<carts', cartStore', contextStore'>> # <<carts, cartStore, contextStore>>
  /\ UNCHANGED <<now, ticks, queues, tasks, sessions, gets, orderLog>>

\* Stores handed to the cleanup service with a cart of every user already in
\* them, as the tests of the service build them: any checkout status, a
\* checkout start time absent or of an age around the 5 minute and 1 hour
\* bounds, a last access of an age around the 24 hour bound, and a session
\* handle absent, current or past its expiry time.
SeedStartAges == {0, StuckCheckoutMs, StuckCheckoutMs + 1, FailedRetentionMs, FailedRetentionMs + 1}

SeedAccessAges == {0, CartExpiryMs, CartExpiryMs + 1}

SeedCarts(userId) ==
  {[NewCart(userId) EXCEPT !.checkoutStatus = status,
                           !.checkoutStartedAt = startedAt,
                           !.lastAccessedAt = StartTime - accessAge] :
     status \in {PENDING, IN_PROGRESS, COMPLETED, FAILED},
     startedAt \in {Undefined} \cup {StartTime - age : age \in SeedStartAges},
     accessAge \in SeedAccessAges}

SeedHandles ==
  {NoContext} \cup {[contextId |-> 1, expiresAt |-> e, isExpired |-> FALSE] :
                      e \in {StartTime - 1, StartTime + ContextExpiryMs}}

InitSweep ==
  /\ now = StartTime
  /\ ticks = 0
  /\ queues = [u \in Users |-> 0]
  /\ tasks = <<>>
  /\ cartStore = [u \in Users |-> IF u = "u1" THEN 1 ELSE 2]
  /\ \E c1 \in SeedCarts("u1"), c2 \in SeedCarts("u2") :
       /\ c1.checkoutStatus = PENDING => c1.checkoutStartedAt = Undefined
       /\ c2.checkoutStatus = PENDING => c2.checkoutStartedAt = Undefined
       /\ carts = <<c1, c2>>
  /\ contextStore \in [Users -> SeedHandles]
  /\ sessions = <<>>
  /\ gets = <<>>
  /\ orderLog = <<>>

\* The provider called on its own, as its tests call it: createCart with an
\* empty or a non-empty item list, and checkout on the id of any session
\* created so far or on an id the provider never issued.  orderLog holds
\* one entry per checkout call: the result and what the session was.
SessionSeeds == {NoItems, <<Item("p1", 1, 5)>>}

ProviderCreateCart ==
  /\ Len(sessions) < MaxSessions
  /\ \E items \in SessionSeeds : sessions' = Append(sessions, NewSession("u1", items))
  /\ UNCHANGED <<now, ticks, queues, tasks, cartStore, carts, contextStore, gets, orderLog>>

ProviderCheckout ==
  /\ Len(orderLog) < MaxCalls
  /\ \E ctx \in 1..(Len(sessions) + 1) :
       LET result == ProviderCheckoutResult(ctx, Len(orderLog) + 1)
       IN /\ orderLog' = Append(orderLog,
                                [ctx |-> ctx, status |-> result.status,
                                 orderId |-> result.orderId, error |-> result.error,
                                 usable |-> SessionUsable(ctx),
                                 empty |-> SessionUsable(ctx) /\ sessions[ctx].items = NoItems])
          /\ sessions' = SessionsAfterCheckout(ctx)
  /\ UNCHANGED <<now, ticks, queues, tasks, cartStore, carts, contextStore, gets>>

NextProvider == ProviderCreateCart \/ ProviderCheckout \/ Tick

\* Stores in which the cart of u1, holding an item, was left in_progress by a
\* checkout that never finished, with a start time of any of the seeded
\* ages and of 60 seconds; u2 has a completed cart.
InitRecover ==
  /\ now = StartTime
  /\ ticks = 0
  /\ queues = [u \in Users |-> 0]
  /\ tasks = <<>>
  /\ cartStore = [u \in Users |-> IF u = "u1" THEN 1 ELSE 2]
  /\ \E age \in SeedStartAges \cup {GracePeriodMs - 1, GracePeriodMs} :
       carts = <<[NewCart("u1") EXCEPT !.items = <<Item("p1", 1, 5)>>,
                                      !.checkoutStatus = IN_PROGRESS,
                                      !.checkoutStartedAt = StartTime - age,
                                      !.lastAccessedAt = StartTime - age],
                 [NewCart("u2") EXCEPT !.checkoutStatus = COMPLETED]>>
  /\ contextStore = [u \in Users |-> NoContext]
  /\ sessions = <<>>
  /\ gets = <<>>
  /\ orderLog = <<>>

(***************************************************************************)
(* Specifications.                                                         *)
(*   Spec       one user, the clock and the cleanup service running        *)
(*   SpecUsers  every user, the clock frozen at StartTime                  *)
(*   SpecSeeded as Spec without direct getCart calls, from a store that    *)
(*              holds a cart left in_progress                              *)
(*   SpecItems  one user, the item operations only, with invalid inputs    *)
(*   SpecBurst  one user, item operations and direct getCart calls         *)
(*   SpecHandles item operations from a context store seeded with a handle *)
(*   SpecSweep  passes of the cleanup service over seeded stores           *)
(*   SpecRecover checkouts and passes over a cart left in_progress         *)
(*   SpecProvider the provider alone: createCart, checkout, the clock      *)
(*   SpecFrame  item operations and setTaxContext on a stored cart in any  *)
(*              checkout status                                            *)
(*   SpecLive   one user, the clock frozen, every enabled step of a task   *)
(*              taken in the end                                           *)
(*   SpecSweepLive as SpecLive with the passes of the cleanup service,     *)
(*              made in the end when they have something to do             *)
(***************************************************************************)
ClockUsers == {"u1"}

Api(U) ==
  \/ \E u \in U, p \in Products, q \in Quantities, price \in Prices :
       Enqueue(u, "addItem", p, q, price)
  \/ \E u \in U, p \in Products : Enqueue(u, "removeItem", p, 0, 0)
  \/ \E u \in U : Enqueue(u, "clearCart", "", 0, 0)
  \/ \E u \in U : Enqueue(u, "checkout", "", 0, 0)

GetCarts(U) ==
  \/ \E u \in U : GetCartCall(u)
  \/ \E g \in 1..Len(gets) : GetCartWrite(g)

Steps ==
  \/ \E t \in TaskIds : StartOp(t)
  \/ \E t \in TaskIds : SkipOp(t)
  \/ \E t \in TaskIds : OpApply(t)
  \/ \E t \in TaskIds : ClearApply(t)
  \/ \E t \in TaskIds : OpSync(t)
  \/ \E t \in TaskIds : CheckoutGuard(t)
  \/ \E t \in TaskIds : CheckoutCreate(t)
  \/ \E t \in TaskIds : CheckoutVerify(t)
  \/ \E t \in TaskIds : CheckoutProvider(t)
  \/ \E t \in TaskIds : CheckoutCleanup(t)

\* the next step of task t, whichever it is
TaskStep(t) ==
  \/ StartOp(t)
  \/ SkipOp(t)
  \/ OpApply(t)
  \/ ClearApply(t)
  \/ OpSync(t)
  \/ CheckoutGuard(t)
  \/ CheckoutCreate(t)
  \/ CheckoutVerify(t)
  \/ CheckoutProvider(t)
  \/ CheckoutCleanup(t)

Next == Api(ClockUsers) \/ GetCarts(ClockUsers) \/ Steps \/ Tick \/ RunCleanup

NextUsers == Api(Users) \/ GetCarts(Users) \/ Steps

NextSeeded == Api(ClockUsers) \/ Steps \/ Tick \/ RunCleanup

\* inputs of the item operations: valid items of two products, an item with
\* quantity 0, one with quantity NaN, one with a negative price, one with
\* price NaN, one without a product id
ItemProducts == {"p1", "p2"}

ItemInputs ==
  {Item(p, q, 5) : p \in ItemProducts, q \in {1, 2}}
    \cup {Item("p1", 0, 5), Item("p1", NaN, 5), Item("p1", 1, -1), Item("p1", 1, NaN),
          Item("", 1, 5)}

QuantityInputs == {0, 2, NaN}

ApiItems ==
  \/ \E i \in ItemInputs : Enqueue("u1", "addItem", i.productId, i.quantity, i.price)
  \/ \E p \in ItemProducts, q \in QuantityInputs : Enqueue("u1", "updateItemQuantity", p, q, 0)
  \/ \E p \in ItemProducts : Enqueue("u1", "removeItem", p, 0, 0)
  \/ Enqueue("u1", "clearCart", "", 0, 0)

ItemSteps ==
  \/ \E t \in TaskIds : StartOp(t)
  \/ \E t \in TaskIds : SkipOp(t)
  \/ \E t \in TaskIds : OpApply(t)
  \/ \E t \in TaskIds : ClearApply(t)
  \/ \E t \in TaskIds : OpSync(t)

NextItems == ApiItems \/ ItemSteps

\* a burst of calls for one user: valid item operations (some of which find
\* no line to change), clearCart and a direct getCart
BurstItems == {Item(p, q, 5) : p \in ItemProducts, q \in {1, 2}}

ApiBurst ==
  \/ \E i \in BurstItems : Enqueue("u1", "addItem", i.productId, i.quantity, i.price)
  \/ \E p \in ItemProducts : Enqueue("u1", "updateItemQuantity", p, 2, 0)
  \/ \E p \in ItemProducts : Enqueue("u1", "removeItem", p, 0, 0)
  \/ Enqueue("u1", "clearCart", "", 0, 0)

NextBurst == ApiBurst \/ GetCarts(ClockUsers) \/ ItemSteps

NextHandles == ApiBurst \/ ItemSteps

CheckoutSteps ==
  \/ \E t \in TaskIds : StartOp(t)
  \/ \E t \in TaskIds : CheckoutGuard(t)
  \/ \E t \in TaskIds : CheckoutCreate(t)
  \/ \E t \in TaskIds : CheckoutVerify(t)
  \/ \E t \in TaskIds : CheckoutProvider(t)
  \/ \E t \in TaskIds : CheckoutCleanup(t)

NextRecover == Enqueue("u1", "checkout", "", 0, 0) \/ CheckoutSteps \/ RunCleanup

\* one user, the clock frozen, no direct getCart: the calls of the cart API
\* and the steps of the tasks they enqueue
NextLive == Api(ClockUsers) \/ Steps

\* The event loop runs every pending callback, and every call of the
\* external capability returns or throws: a step of a task that can be
\* taken is taken in the end.
Fairness == \A t \in 1..MaxTasks : WF_vars(t \in TaskIds /\ TaskStep(t))

\* one user, the clock frozen, with the passes of the cleanup service
NextSweepLive == Api(ClockUsers) \/ Steps \/ RunCleanup

\* setInterval keeps calling the pass: a pass that has something to do is
\* made in the end
SweeperFairness == WF_vars(RunCleanup)

\* A store holding for u1 a cart with one item in each checkout status, as
\* checkout leaves it: pending, in_progress (the mark of STEP 1), completed
\* with its result (STEP 8, cleanup failed), failed with its error.
FrameSeeds ==
  {[NewCart("u1") EXCEPT !.items = <<Item("p1", 1, 5)>>],
   [NewCart("u1") EXCEPT !.items = <<Item("p1", 1, 5)>>,
                         !.checkoutStatus = IN_PROGRESS, !.checkoutStartedAt = StartTime],
   [NewCart("u1") EXCEPT !.items = <<Item("p1", 1, 5)>>,
                         !.checkoutStatus = COMPLETED, !.checkoutStartedAt = StartTime,
                         !.checkoutResult = CompletedResult(1)],
   [NewCart("u1") EXCEPT !.items = <<Item("p1", 1, 5)>>,
                         !.checkoutStatus = FAILED, !.checkoutStartedAt = StartTime,
                         !.checkoutError = PROVIDER_CHECKOUT_FAILED]}

InitFrame ==
  /\ now = StartTime
  /\ ticks = 0
  /\ queues = [u \in Users |-> 0]
  /\ tasks = <<>>
  /\ cartStore = [u \in Users |-> IF u = "u1" THEN 1 ELSE 0]
  /\ \E cart \in FrameSeeds : carts = <<cart>>
  /\ contextStore = [u \in Users |-> NoContext]
  /\ sessions = <<>>
  /\ gets = <<>>
  /\ orderLog = <<>>

TaxContexts == {"ON", "QC"}

ApiFrame ==
  \/ ApiBurst
  \/ \E taxContext \in TaxContexts : Enqueue("u1", "setTaxContext", taxContext, 0, 0)

NextFrame == ApiFrame \/ ItemSteps \/ (\E t \in TaskIds : TaxApply(t))

Spec == Init /\ [][Next]_vars

SpecUsers == Init /\ [][NextUsers]_vars

SpecSeeded == InitSeeded /\ [][NextSeeded]_vars

SpecItems == Init /\ [][NextItems]_vars

SpecBurst == Init /\ [][NextBurst]_vars

SpecHandles == InitHandles /\ [][NextHandles]_vars

SpecSweep == InitSweep /\ [][RunCleanup]_vars

SpecRecover == InitRecover /\ [][NextRecover]_vars

SpecLive == Init /\ [][NextLive]_vars /\ Fairness

SpecProvider == Init /\ [][NextProvider]_vars

SpecFrame == InitFrame /\ [][NextFrame]_vars

SpecSweepLive == Init /\ [][NextSweepLive]_vars /\ Fairness /\ SweeperFairness

(***************************************************************************)
(* Properties.                                                             *)
(***************************************************************************)
CheckoutTasks == {t \in TaskIds : tasks[t].kind = "checkout"}

TasksOf(userId) == {t \in TaskIds : tasks[t].user = userId}

\* C1: the external checkout operation returns a completed result at most
\* once for any one Cart entity, whatever cart operations, checkouts, retries
\* and cleanup passes take place.
C1_AtMostOncePerCart ==
  \A i, j \in 1..Len(orderLog) : orderLog[i].cart = orderLog[j].cart => i = j

\* a checkout that ran on a cart for which an order had already been issued
C1_Witness ==
  \E i \in 1..Len(orderLog) : \E t \in CheckoutTasks :
    /\ t > orderLog[i].task
    /\ tasks[t].cart = orderLog[i].cart
    /\ tasks[t].st = "settled"

\* two checkout calls in immediate succession: consecutive submissions, no
\* direct getCart call around them
InSuccession(t1, t2) ==
  /\ t2 = t1 + 1
  /\ t1 \in CheckoutTasks /\ t2 \in CheckoutTasks
  /\ tasks[t1].user = tasks[t2].user
  /\ gets = <<>>
  /\ tasks[t1].st = "settled" /\ tasks[t2].st = "settled"

C3_NoRepeatAfterFailedCleanup ==
  \A i \in 1..Len(orderLog) : \A t \in CheckoutTasks :
    t > orderLog[i].task /\ tasks[t].ran /\ tasks[t].cart = orderLog[i].cart =>
      /\ tasks[t].extCalls = 0
      /\ tasks[t].result.orderId \in {0, orderLog[i].orderId}

\* the cleanup failed, the cart stayed in the store and a later checkout
\* returned the cached result
C3_Witness ==
  \E i \in 1..Len(orderLog) : \E t \in CheckoutTasks :
    /\ t > orderLog[i].task
    /\ gets = <<>>
    /\ cartStore[tasks[t].user] = orderLog[i].cart
    /\ tasks[t].cart = orderLog[i].cart
    /\ tasks[t].st = "settled"
    /\ tasks[t].result = CompletedResult(orderLog[i].orderId)

\* C4: for one key the tasks run one at a time in submission order: an
\* operation starts only when every earlier task of the key has settled, at
\* most one operation of a key is running, and the tasks settle in order.
C4_SerialPerKey ==
  /\ \A t1, t2 \in TaskIds :
       t1 < t2 /\ tasks[t1].user = tasks[t2].user =>
         /\ tasks[t2].ran => tasks[t1].st = "settled"
         /\ tasks[t2].st = "settled" => tasks[t1].st = "settled"
  /\ \A u \in Users : Cardinality({t \in TasksOf(u) : tasks[t].st = "running"}) <= 1

\* a task chained behind a pending task of its key has run its operation
C4_Witness ==
  \E t1, t2 \in TaskIds :
    /\ tasks[t2].prev = t1
    /\ tasks[t1].ran /\ tasks[t2].ran

\* C5 (as stated): every task of a key runs its own operation and settles
\* with its own result; a failure reaches only the caller of the task whose
\* operation failed.
C5_FailureStaysWithItsTask ==
  \A t \in TaskIds :
    tasks[t].st = "settled" =>
      /\ tasks[t].ran
      /\ ~tasks[t].ok => tasks[t].errOf = t

\* C6: tasks of distinct keys never wait on each other: a task is chained
\* only behind a task of its own key, and a queued task with no unsettled
\* earlier task of its key can take its step whatever the other keys do.
C6_NoCrossKeyWaiting ==
  \A t \in TaskIds :
    /\ tasks[t].prev # 0 => tasks[tasks[t].prev].user = tasks[t].user
    /\ ( /\ tasks[t].st = "queued"
         /\ \A t1 \in TasksOf(tasks[t].user) : t1 < t => tasks[t1].st = "settled" )
       => ENABLED (StartOp(t) \/ SkipOp(t))

\* a task of one user, submitted later, has settled while an earlier task of
\* another user is still running
C6_Witness ==
  \E a, b \in TaskIds :
    /\ a < b
    /\ tasks[a].user # tasks[b].user
    /\ tasks[a].st = "running"
    /\ tasks[b].st = "settled"

\* C7: the queue holds no entry for a key whose tasks have all settled, and
\* while a task of the key is unsettled the entry is there, holding the last
\* task submitted for the key.
C7_EntryLifetime ==
  \A u \in Users :
    IF \A t \in TasksOf(u) : tasks[t].st = "settled"
    THEN queues[u] = 0
    ELSE /\ queues[u] \in TasksOf(u)
         /\ \A t \in TasksOf(u) : t <= queues[u]

\* an earlier task of a key has settled and the entry is kept for a later one
C7_Witness ==
  \E t1, t2 \in TaskIds :
    /\ t1 < t2
    /\ tasks[t1].user = tasks[t2].user
    /\ tasks[t1].st = "settled"
    /\ tasks[t2].st # "settled"
    /\ queues[tasks[t2].user] = t2

\* C8 (as stated): a checkout call never rejects: it resolves with a result
\* whose status is completed or failed.
C8_CheckoutNeverRejects ==
  \A t \in CheckoutTasks :
    tasks[t].st = "settled" =>
      /\ tasks[t].ok
      /\ tasks[t].result.status \in {COMPLETED, FAILED}

\* the step of task t that leaves the guards of checkout
LeavesGuard(t) ==
  /\ tasks[t].st = "running" /\ tasks[t].pc = "guard"
  /\ tasks'[t].pc # "guard"

StoresUnchanged == UNCHANGED <<cartStore, carts, contextStore, sessions, orderLog>>

\* C9: checkout on a completed cart makes no external call and changes no
\* state; it returns the cached result when there is one, else the "already
\* checked out" failure.
C9_CompletedShortCircuit ==
  [][\A t \in TaskIds :
       ( /\ LeavesGuard(t)
         /\ tasks[t].cart # 0
         /\ carts[tasks[t].cart].checkoutStatus = COMPLETED )
       => /\ StoresUnchanged
          /\ tasks'[t].st = "settled" /\ tasks'[t].ok
          /\ tasks'[t].extCalls = 0
          /\ tasks'[t].result =
               IF carts[tasks[t].cart].checkoutResult # NoResult
               THEN carts[tasks[t].cart].checkoutResult
               ELSE FailedResult(CART_ALREADY_CHECKED_OUT)]_vars

\* a checkout settled with a completed result without any external call
C9_Witness ==
  \E t \in CheckoutTasks :
    /\ tasks[t].st = "settled"
    /\ tasks[t].extCalls = 0
    /\ tasks[t].result.status = COMPLETED
    /\ carts[tasks[t].cart].checkoutStatus = COMPLETED

\* C10: checkout on an in_progress cart returns the "checkout in progress"
\* failure, with no external call and no state change, exactly when less
\* than 60 seconds have elapsed since checkoutStartedAt; otherwise (60
\* seconds or more, or no start time) it goes on as a fresh attempt.
C10_GracePeriod ==
  [][\A t \in TaskIds :
       ( /\ LeavesGuard(t)
         /\ tasks[t].cart # 0
         /\ carts[tasks[t].cart].checkoutStatus = IN_PROGRESS )
       => LET c == tasks[t].cart
              startedAt == carts[c].checkoutStartedAt
          IN IF startedAt # Undefined /\ now - startedAt < 60000
             THEN /\ StoresUnchanged
                  /\ tasks'[t].st = "settled" /\ tasks'[t].ok
                  /\ tasks'[t].extCalls = 0
                  /\ tasks'[t].result = FailedResult(CHECKOUT_IN_PROGRESS)
             ELSE IF ItemCount(carts[c].items) = 0
             THEN tasks'[t].result = FailedResult(EMPTY_CART)
             ELSE /\ tasks'[t].st = "running" /\ tasks'[t].pc = "createCart"
                  /\ carts'[c].checkoutStatus = IN_PROGRESS
                  /\ carts'[c].checkoutStartedAt = now]_vars

\* a checkout refused one millisecond before the grace period of the stored
\* in_progress cart ran out
C10_Witness ==
  \E t \in CheckoutTasks :
    /\ tasks[t].st = "settled"
    /\ tasks[t].result = FailedResult(CHECKOUT_IN_PROGRESS)
    /\ now = StartTime + 60000 - 1

\* the step of checkout task t that leaves the guards with an empty cart loaded
LeavesGuardEmpty(t) ==
  /\ LeavesGuard(t)
  /\ tasks[t].cart # 0
  /\ carts[tasks[t].cart].items = <<>>

\* C11 (as stated): checkout on a cart with no items always returns the failed
\* empty-cart result, makes no external call and changes no state.
C11_AsStated ==
  [][\A t \in TaskIds :
       LeavesGuardEmpty(t)
       => /\ StoresUnchanged
          /\ tasks'[t].st = "settled" /\ tasks'[t].ok
          /\ tasks'[t].extCalls = 0
          /\ tasks'[t].result = FailedResult(EMPTY_CART)]_vars

\* C11 (amended): checkout on a cart with no items makes no external call and
\* changes no state; it returns the failed empty-cart result unless the cart
\* is completed (cached result, else "already checked out") or in_progress
\* with less than 60 seconds elapsed ("checkout in progress"), the guards
\* that come first.
C11_EmptyCart ==
  [][\A t \in TaskIds :
       LeavesGuardEmpty(t)
       => LET cart == carts[tasks[t].cart]
          IN /\ StoresUnchanged
             /\ tasks'[t].st = "settled" /\ tasks'[t].ok
             /\ tasks'[t].extCalls = 0
             /\ tasks'[t].result =
                  IF cart.checkoutStatus = COMPLETED
                  THEN IF cart.checkoutResult # NoResult THEN cart.checkoutResult
                       ELSE FailedResult(CART_ALREADY_CHECKED_OUT)
                  ELSE IF /\ cart.checkoutStatus = IN_PROGRESS
                          /\ cart.checkoutStartedAt # Undefined
                          /\ now - cart.checkoutStartedAt < 60000
                  THEN FailedResult(CHECKOUT_IN_PROGRESS)
                  ELSE FailedResult(EMPTY_CART)]_vars

\* a checkout answered a completed cart that has no items left with the
\* cached completed result
C11_Witness ==
  \E t \in CheckoutTasks :
    /\ tasks[t].st = "settled"
    /\ tasks[t].cart # 0
    /\ carts[tasks[t].cart].items = <<>>
    /\ carts[tasks[t].cart].checkoutStatus = COMPLETED
    /\ tasks[t].result.status = COMPLETED
    /\ tasks[t].extCalls = 0

\* C12: in every checkout attempt that passes the guards the cart is stored
\* with status in_progress and a start timestamp before the first external
\* call: the attempt reaches its first external call only by the step that
\* makes and stores the mark, and external calls are counted only after it.
C12_InProgressBeforeExternal ==
  [][\A t \in CheckoutTasks :
       LET c == tasks[t].cart
       IN /\ (tasks'[t].pc = "createCart" /\ tasks[t].pc # "createCart")
             => /\ tasks[t].pc = "guard"
                /\ tasks'[t].extCalls = 0
                /\ carts'[c].checkoutStatus = IN_PROGRESS
                /\ carts'[c].checkoutStartedAt = now
                /\ cartStore'[tasks[t].user] = c
                /\ UNCHANGED <<contextStore, sessions, orderLog>>
          /\ tasks'[t].extCalls > tasks[t].extCalls
             => tasks[t].pc \in {"createCart", "getCart", "checkout"}]_vars

\* a checkout suspended on its first external call, the cart stored in_progress
C12_Witness ==
  \E t \in CheckoutTasks :
    /\ tasks[t].pc = "createCart"
    /\ tasks[t].extCalls = 0
    /\ cartStore[tasks[t].user] = tasks[t].cart
    /\ carts[tasks[t].cart].checkoutStatus = IN_PROGRESS
    /\ carts[tasks[t].cart].checkoutStartedAt = now

\* C13: in every successful checkout the cart is stored with status completed
\* and the result cached on it before any deletion of the cart or of its
\* session handle is attempted.
C13_CompletedBeforeCleanup ==
  [][\A t \in CheckoutTasks :
       LET c == tasks[t].cart
           u == tasks[t].user
       IN /\ (tasks'[t].pc = "cleanup" /\ tasks[t].pc # "cleanup")
             => /\ carts'[c].checkoutStatus = COMPLETED
                /\ carts'[c].checkoutResult = tasks'[t].result
                /\ tasks'[t].result.status = COMPLETED
                /\ cartStore'[u] = c
                /\ UNCHANGED contextStore
          /\ ( /\ tasks[t].st = "running" /\ tasks'[t] # tasks[t]
               /\ \/ cartStore[u] # 0 /\ cartStore'[u] = 0
                  \/ contextStore[u] # NoContext /\ contextStore'[u] = NoContext )
             => /\ tasks[t].pc = "cleanup"
                /\ carts[c].checkoutStatus = COMPLETED
                /\ carts[c].checkoutResult = tasks[t].result]_vars

\* a successful checkout has deleted the cart, which carries the completed
\* mark and the result
C13_Witness ==
  \E t \in CheckoutTasks :
    /\ tasks[t].st = "settled"
    /\ tasks[t].result.status = COMPLETED
    /\ tasks[t].extCalls > 0
    /\ cartStore[tasks[t].user] = 0
    /\ carts[tasks[t].cart].checkoutStatus = COMPLETED
    /\ carts[tasks[t].cart].checkoutResult = tasks[t].result

\* the changes of checkout status the state machine allows
AllowedTransitions ==
  {<<PENDING, IN_PROGRESS>>, <<IN_PROGRESS, COMPLETED>>, <<IN_PROGRESS, FAILED>>,
   <<FAILED, IN_PROGRESS>>}

\* C14 (as stated): every change of a cart's checkout status, by checkout or
\* by the cleanup service in any interleaving, is pending -> in_progress,
\* in_progress -> completed, in_progress -> failed or failed -> in_progress.
C14_Transitions ==
  [][\A c \in 1..Len(carts) :
       carts'[c].checkoutStatus # carts[c].checkoutStatus
       => <<carts[c].checkoutStatus, carts'[c].checkoutStatus>> \in AllowedTransitions]_vars

\* C15: in every reachable state a cart has a cached checkoutResult if and
\* only if its checkout status is completed.
C15_ResultIffCompleted ==
  \A c \in 1..Len(carts) :
    carts[c].checkoutResult # NoResult <=> carts[c].checkoutStatus = COMPLETED

\* a cart marked failed by a cleanup pass while its checkout was suspended,
\* then completed with its result
C15_Witness ==
  \E c \in 1..Len(carts) :
    /\ carts[c].checkoutStatus = COMPLETED
    /\ carts[c].checkoutResult.status = COMPLETED
    /\ carts[c].checkoutError = CHECKOUT_TIMEOUT

\* C16: when a provider call of the reconciliation of addItem,
\* updateItemQuantity or removeItem fails (session creation, validation,
\* read, remove or add), the operation still resolves, the stored cart holds
\* the local item change, and the cart has syncStatus pending and a
\* non-empty lastSyncError.
C16_SyncFailureSwallowed ==
  [][\A t \in TaskIds :
       (/\ tasks[t].kind \in {"addItem", "updateItemQuantity", "removeItem"}
        /\ tasks[t].pc = "sync"
        /\ tasks'[t].fault \notin {"", "none"})
       => LET c == tasks[t].cart
          IN /\ tasks'[t].st = "settled" /\ tasks'[t].ok
             /\ cartStore'[tasks[t].user] = c
             /\ carts'[c].items = tasks[t].after
             /\ carts'[c].syncStatus = PENDING
             /\ carts'[c].lastSyncError # ""]_vars

\* an updateItemQuantity that resolved although the session read reported an
\* expired session
C16_Witness ==
  \E t \in TaskIds :
    /\ tasks[t].kind = "updateItemQuantity"
    /\ tasks[t].st = "settled" /\ tasks[t].ok
    /\ tasks[t].fault = "getCart"
    /\ tasks[t].after # tasks[t].before
    /\ carts[tasks[t].cart].items = tasks[t].after
    /\ carts[tasks[t].cart].syncStatus = PENDING
    /\ carts[tasks[t].cart].lastSyncError = CONTEXT_EXPIRED

\* C17: an addItem of a product the cart does not hold, followed at once by
\* the removeItem of that product, leaves the local item list as it was
\* before the addItem, and when the reconciliation of the removeItem
\* succeeds the external session of the user holds no item of that product.
C17_AddThenRemove ==
  [][\A t \in TaskIds :
       (/\ t > 1
        /\ tasks[t].kind = "removeItem" /\ tasks[t].pc = "sync"
        /\ tasks'[t].st = "settled"
        /\ tasks[t - 1].kind = "addItem" /\ tasks[t - 1].ok
        /\ tasks[t - 1].user = tasks[t].user
        /\ tasks[t - 1].product = tasks[t].product
        /\ FindIndex(tasks[t - 1].before, tasks[t].product) = 0)
       => /\ tasks[t].after = tasks[t - 1].before
          /\ carts'[tasks[t].cart].items = tasks[t - 1].before
          /\ tasks'[t].fault = "none"
             => LET ctx == contextStore'[tasks[t].user]
                IN /\ ctx # NoContext
                   /\ FindIndex(sessions'[ctx.contextId].items, tasks[t].product) = 0]_vars

\* p1 added to a cart holding p2 and reconciled, then removed and reconciled
C17_Witness ==
  /\ Len(tasks) = 3
  /\ tasks[2].kind = "addItem" /\ tasks[2].ok /\ tasks[2].fault = "none"
  /\ tasks[2].before # NoItems
  /\ FindIndex(tasks[2].before, tasks[2].product) = 0
  /\ tasks[3].kind = "removeItem" /\ tasks[3].product = tasks[2].product
  /\ tasks[3].ok /\ tasks[3].fault = "none"
  /\ carts[tasks[3].cart].items = tasks[2].before
  /\ FindIndex(sessions[contextStore["u1"].contextId].items, tasks[3].product) = 0

\* a >= b on numbers, false when either side is NaN
AtLeast(a, b) == a # NaN /\ b # NaN /\ a >= b

\* the lines of a cart have pairwise distinct product ids
DistinctProducts(items) ==
  \A i, j \in 1..Len(items) : items[i].productId = items[j].productId => i = j

\* an addItem for a product already in the cart replaced that line
ReplacedInPlace(task) ==
  LET index == FindIndex(task.before, task.product)
  IN index > 0
     => /\ Len(task.after) = Len(task.before)
        /\ task.after[index] = Item(task.product, task.qty, task.price)
        /\ \A i \in 1..Len(task.before) : i # index => task.after[i] = task.before[i]

\* C18: in every cart the product ids of the lines are pairwise distinct,
\* every quantity is an integer >= 1 and every price is >= 0; an addItem for a
\* product already present replaces that line instead of adding a second one.
C18_LineItems ==
  /\ \A c \in 1..Len(carts) :
       /\ DistinctProducts(carts[c].items)
       /\ \A i \in 1..Len(carts[c].items) :
            /\ IsInteger(carts[c].items[i].quantity)
            /\ AtLeast(carts[c].items[i].quantity, 1)
            /\ AtLeast(carts[c].items[i].price, 0)
  /\ \A t \in TaskIds :
       (tasks[t].kind = "addItem" /\ tasks[t].pc = "sync") => ReplacedInPlace(tasks[t])

\* an addItem whose item lacks a product id, an integer quantity >= 1 or a
\* price >= 0, or an updateItemQuantity whose quantity is not an integer >= 1
InvalidInput(task) ==
  \/ /\ task.kind = "addItem"
     /\ \/ task.product = ""
        \/ ~(IsInteger(task.qty) /\ AtLeast(task.qty, 1))
        \/ ~AtLeast(task.price, 0)
  \/ /\ task.kind = "updateItemQuantity"
     /\ ~(IsInteger(task.qty) /\ AtLeast(task.qty, 1))

\* C19: an addItem with an invalid item and an updateItemQuantity with an
\* invalid quantity are rejected with a validation error in the step that
\* starts them: no cart is created or modified, no timestamp bumped, no
\* session handle created and no provider call made.
C19_RejectedBeforeState ==
  [][\A t \in TaskIds :
       (InvalidInput(tasks[t]) /\ ~tasks[t].ran /\ tasks'[t].ran)
       => /\ tasks'[t].st = "settled" /\ ~tasks'[t].ok
          /\ tasks'[t].errOf = t
          /\ tasks'[t].error \in {INVALID_ITEM_DATA, QUANTITY_MUST_BE_INTEGER}
          /\ tasks'[t].extCalls = 0
          /\ UNCHANGED <<cartStore, carts, contextStore, sessions>>]_vars

\* C20: every step of the cart API that writes a user's cart or the cart
\* store is a step of a running task of that user's queue; the only other
\* writer is the cleanup pass. This includes the get-or-create of getCart
\* and getSummary.
C20_WritesInsideQueue ==
  [][\A c \in 1..Len(carts') :
       (\/ c > Len(carts)
        \/ carts'[c] # carts[c]
        \/ cartStore'[carts'[c].userId] # cartStore[carts'[c].userId])
       => \/ \E t \in TaskIds : /\ tasks[t].st = "running"
                                /\ tasks[t].user = carts'[c].userId
                                /\ tasks'[t] # tasks[t]
          \/ RunCleanup]_vars

\* the items a cart holds after the calls 1..n that resolved were applied
\* one after another: addItem replaces the line of its product or appends,
\* updateItemQuantity sets the quantity of the line, removeItem drops the
\* line, clearCart empties the list
RECURSIVE Replay(_)
Replay(n) ==
  IF n = 0 THEN NoItems
  ELSE LET prior == Replay(n - 1)
           task == tasks[n]
           has == \E i \in 1..Len(prior) : prior[i].productId = task.product
       IN IF ~(task.st = "settled" /\ task.ok) THEN prior
          ELSE IF task.kind = "addItem"
          THEN IF has
               THEN [i \in 1..Len(prior) |->
                       IF prior[i].productId = task.product
                       THEN Item(task.product, task.qty, task.price) ELSE prior[i]]
               ELSE Append(prior, Item(task.product, task.qty, task.price))
          ELSE IF task.kind = "updateItemQuantity"
          THEN [i \in 1..Len(prior) |->
                  IF prior[i].productId = task.product
                  THEN [prior[i] EXCEPT !.quantity = task.qty] ELSE prior[i]]
          ELSE IF task.kind = "removeItem"
          THEN SelectSeq(prior, LAMBDA l : l.productId # task.product)
          ELSE IF task.kind = "clearCart" THEN NoItems
          ELSE prior

StoredItems(userId) ==
  IF cartStore[userId] = 0 THEN NoItems ELSE carts[cartStore[userId]].items

AllSettled ==
  /\ Len(tasks) > 0
  /\ \A t \in TaskIds : tasks[t].st = "settled"
  /\ GetsDone

\* C21: once every call of a burst for one user (item operations, clearCart,
\* direct getCart) has settled, the items of the stored cart are those
\* obtained by applying the calls that resolved one after another in
\* submission order.
C21_NoLostUpdate ==
  AllSettled => StoredItems("u1") = Replay(Len(tasks))

\* three calls resolved and a direct getCart created a cart object of its own
\* while the first operation was between its store read and its write
C21_Witness ==
  /\ AllSettled
  /\ Len(tasks) = 3 /\ \A t \in TaskIds : tasks[t].ok
  /\ Len(gets) = 1 /\ Len(carts) = 2
  /\ gets[1].cart # cartStore["u1"]
  /\ StoredItems("u1") # NoItems

\* the step changes the reconciliation state of a user: a session of the
\* user at the provider, the user's session handle, or the sync fields of
\* one of the user's carts
SyncEffect(userId) ==
  \/ \E s \in 1..Len(sessions') :
       sessions'[s].userId = userId /\ (s > Len(sessions) \/ sessions'[s] # sessions[s])
  \/ contextStore'[userId] # contextStore[userId]
  \/ \E c \in 1..Len(carts) :
       /\ carts[c].userId = userId
       /\ <<carts'[c].syncStatus, carts'[c].lastSyncError, carts'[c].externalCartId>>
            # <<carts[c].syncStatus, carts[c].lastSyncError, carts[c].externalCartId>>

\* C22: every step that changes the reconciliation state of a user (provider
\* calls, session handle, sync status) is a step of a running operation of
\* that user, taken while no later operation of the user has started: the
\* reconciliation of operation N is over before operation N+1 begins and
\* none runs after its operation returned.
C22_FullEffectBeforeNext ==
  [][\A u \in Users :
       SyncEffect(u)
       => \E t \in TaskIds :
            /\ tasks[t].user = u
            /\ tasks[t].st = "running" /\ tasks'[t] # tasks[t]
            /\ \A t2 \in TaskIds : (t2 > t /\ tasks[t2].user = u) => ~tasks'[t2].ran]_vars

\* an operation reconciled with the provider and settled, and only then the
\* next operation of the same user is run and reaches its own reconciliation
C22_Witness ==
  \E t \in TaskIds :
    /\ t + 1 \in TaskIds
    /\ tasks[t].user = tasks[t + 1].user
    /\ tasks[t].st = "settled" /\ tasks[t].ok /\ tasks[t].fault = "none"
    /\ tasks[t + 1].st = "running" /\ tasks[t + 1].pc = "sync"
    /\ carts[tasks[t].cart].syncStatus = SYNCED

\* C23: a read of the context store (get or exists) never hands out a handle
\* whose expired flag is set or whose expiry time has passed: it reports the
\* handle as absent and removes it from the store; the reconciliation that
\* made the read does not leave that handle in the store.  A handle that is
\* neither flagged nor past its expiry time is returned and kept.
C23_ExpiredHandleAbsent ==
  [][\A t \in TaskIds :
       (tasks[t].st = "running" /\ tasks[t].pc = "sync" /\ tasks'[t].st = "settled")
       => LET u == tasks[t].user
              h == contextStore[u]
              gone == h.isExpired \/ h.expiresAt < now
          IN h # NoContext
             => /\ gone => /\ ContextStoreGet(u) = NoContext
                           /\ ~ContextStoreExists(u)
                           /\ ContextStoreAfterGet(u)[u] = NoContext
                           /\ contextStore'[u] # h
                /\ ~gone => /\ ContextStoreGet(u) = h
                            /\ ContextStoreExists(u)
                            /\ ContextStoreAfterGet(u) = contextStore]_vars

\* the first reconciliation, with no failing call, replaced the seeded handle
\* although its session at the provider is still live and unexpired
C23_Witness ==
  /\ Len(tasks) = 1
  /\ tasks[1].st = "settled" /\ tasks[1].fault = "none"
  /\ Len(sessions) = 2
  /\ sessions[1].live /\ sessions[1].expiresAt >= now
  /\ contextStore["u1"].contextId = 2

\* a step of the cleanup service: no task, direct call or clock moves
CleanupPass == tasks' = tasks /\ gets' = gets /\ now' = now

\* the cart the store holds for the user before the step
Stored(userId) == carts[cartStore[userId]]

\* C24: a pass of the cleanup service deletes every stored cart whose
\* checkout status is completed, with the session handle of its user,
\* however recently the cart was accessed.
C24_CompletedDeleted ==
  [][CleanupPass
     => \A u \in Users :
          (cartStore[u] # 0 /\ Stored(u).checkoutStatus = COMPLETED)
          => cartStore'[u] = 0 /\ contextStore'[u] = NoContext]_vars

\* a completed cart accessed at the present instant is gone from the store,
\* and so is the handle of its user
C24_Witness ==
  /\ carts[1].checkoutStatus = COMPLETED
  /\ carts[1].lastAccessedAt = now
  /\ cartStore["u1"] = 0
  /\ contextStore["u1"] = NoContext

\* C25: a pass deletes a stored failed cart when more than one hour has
\* passed since its checkout start time; a failed cart whose checkout
\* started within the last hour and that was accessed within the last 24
\* hours stays in the store, unchanged.
C25_FailedRetention ==
  [][CleanupPass
     => \A u \in Users :
          (/\ cartStore[u] # 0
           /\ Stored(u).checkoutStatus = FAILED
           /\ Stored(u).checkoutStartedAt # Undefined)
          => /\ now - Stored(u).checkoutStartedAt > FailedRetentionMs
                => cartStore'[u] = 0
             /\ (/\ now - Stored(u).checkoutStartedAt <= FailedRetentionMs
                 /\ now - Stored(u).lastAccessedAt <= CartExpiryMs)
                => /\ cartStore'[u] = cartStore[u]
                   /\ carts'[cartStore[u]] = Stored(u)]_vars

\* after a pass: the failed cart of u1, started more than an hour ago and
\* accessed at the present instant, is gone; the failed cart of u2, started
\* exactly one hour ago and accessed exactly 24 hours ago, is still stored
C25_Witness ==
  /\ carts[1].checkoutStatus = FAILED
  /\ carts[1].checkoutStartedAt = now - FailedRetentionMs - 1
  /\ carts[1].lastAccessedAt = now
  /\ cartStore["u1"] = 0
  /\ carts[2].checkoutStatus = FAILED
  /\ carts[2].checkoutStartedAt = now - FailedRetentionMs
  /\ carts[2].lastAccessedAt = now - CartExpiryMs
  /\ cartStore["u2"] = 2

\* C26: a pass that finds a stored cart in_progress with a start time more
\* than 5 minutes old sets its status to failed with the timeout error and
\* leaves it in the store, whatever its last-accessed time; an in_progress
\* cart started 5 minutes ago or less keeps the status in_progress.
C26_StuckMarkedFailed ==
  [][CleanupPass
     => \A u \in Users :
          (/\ cartStore[u] # 0
           /\ Stored(u).checkoutStatus = IN_PROGRESS
           /\ Stored(u).checkoutStartedAt # Undefined)
          => /\ now - Stored(u).checkoutStartedAt > StuckCheckoutMs
                => /\ cartStore'[u] = cartStore[u]
                   /\ carts'[cartStore[u]].checkoutStatus = FAILED
                   /\ carts'[cartStore[u]].checkoutError = CHECKOUT_TIMEOUT
             /\ now - Stored(u).checkoutStartedAt <= StuckCheckoutMs
                => carts'[cartStore[u]].checkoutStatus = IN_PROGRESS]_vars

\* after a pass: the cart of u1, started more than 5 minutes ago, is stored,
\* touched by the pass and failed with the timeout error; the cart of u2,
\* started exactly 5 minutes ago, is still in_progress
C26_Witness ==
  /\ cartStore["u1"] = 1
  /\ carts[1].lastAccessedAt = now
  /\ carts[1].checkoutStatus = FAILED
  /\ carts[1].checkoutError = CHECKOUT_TIMEOUT
  /\ carts[1].checkoutStartedAt = now - StuckCheckoutMs - 1
  /\ cartStore["u2"] = 2
  /\ carts[2].checkoutStatus = IN_PROGRESS
  /\ carts[2].checkoutStartedAt = now - StuckCheckoutMs

\* C27: a pass deletes, with the session handle of its user, every stored
\* cart that the status rules neither removed nor marked and whose last
\* access is more than 24 hours old, whatever its checkout status; a pending
\* cart accessed within the last 24 hours is never deleted by a pass.
C27_InactiveDeleted ==
  [][CleanupPass
     => \A u \in Users :
          cartStore[u] # 0
          => /\ (/\ Stored(u).checkoutStatus # COMPLETED
                 /\ ~(/\ Stored(u).checkoutStatus = FAILED
                      /\ now - StartedAtOrZero(Stored(u)) > FailedRetentionMs)
                 /\ ~(/\ Stored(u).checkoutStatus = IN_PROGRESS
                      /\ now - StartedAtOrZero(Stored(u)) > StuckCheckoutMs)
                 /\ now - Stored(u).lastAccessedAt > CartExpiryMs)
                => cartStore'[u] = 0 /\ contextStore'[u] = NoContext
             /\ (/\ Stored(u).checkoutStatus = PENDING
                 /\ now - Stored(u).lastAccessedAt <= CartExpiryMs)
                => cartStore'[u] = cartStore[u] /\ carts'[cartStore[u]] = Stored(u)]_vars

\* after a pass: the in_progress cart of u1, started at the present instant
\* and last accessed more than 24 hours ago, is gone with the handle; the
\* pending cart of u2, accessed exactly 24 hours ago, is still stored
C27_Witness ==
  /\ carts[1].checkoutStatus = IN_PROGRESS
  /\ carts[1].checkoutStartedAt = now
  /\ carts[1].lastAccessedAt = now - CartExpiryMs - 1
  /\ cartStore["u1"] = 0 /\ contextStore["u1"] = NoContext
  /\ carts[2].checkoutStatus = PENDING
  /\ carts[2].lastAccessedAt = now - CartExpiryMs
  /\ cartStore["u2"] = 2

\* the step of task t that leaves the guards of checkout towards a fresh
\* attempt: the cart is marked in_progress with the present as start time
\* and the next step of the task is the first call of the provider
FreshAttempt(t) ==
  /\ tasks'[t].st = "running" /\ tasks'[t].pc = "createCart"
  /\ carts'[tasks[t].cart].checkoutStatus = IN_PROGRESS
  /\ carts'[tasks[t].cart].checkoutStartedAt = now

\* C28 (as stated): a stored cart in_progress with a start time older than
\* the grace period of checkout (60 seconds) is failed with the timeout error
\* after one pass, and the next checkout on it proceeds to a fresh attempt.
C28_AsStated ==
  [][/\ CleanupPass
        => \A u \in Users :
             (/\ cartStore[u] # 0
              /\ Stored(u).checkoutStatus = IN_PROGRESS
              /\ Stored(u).checkoutStartedAt # Undefined
              /\ now - Stored(u).checkoutStartedAt > GracePeriodMs)
             => /\ carts'[cartStore[u]].checkoutStatus = FAILED
                /\ carts'[cartStore[u]].checkoutError = CHECKOUT_TIMEOUT
     /\ \A t \in TaskIds :
          (/\ LeavesGuard(t) /\ tasks[t].cart # 0
           /\ carts[tasks[t].cart].checkoutStatus = FAILED
           /\ carts[tasks[t].cart].checkoutError = CHECKOUT_TIMEOUT
           /\ carts[tasks[t].cart].items # NoItems)
          => FreshAttempt(t)]_vars

\* C28: a stored cart in_progress with a start time more than 5 minutes old
\* is failed with the timeout error after one pass; a checkout that finds a
\* non-empty cart failed by a pass, or still in_progress 60 seconds or more
\* after its start, is not blocked and proceeds to a fresh attempt.
C28_StuckRecovery ==
  [][/\ CleanupPass
        => \A u \in Users :
             (/\ cartStore[u] # 0
              /\ Stored(u).checkoutStatus = IN_PROGRESS
              /\ Stored(u).checkoutStartedAt # Undefined
              /\ now - Stored(u).checkoutStartedAt > StuckCheckoutMs)
             => /\ carts'[cartStore[u]].checkoutStatus = FAILED
                /\ carts'[cartStore[u]].checkoutError = CHECKOUT_TIMEOUT
     /\ \A t \in TaskIds :
          (/\ LeavesGuard(t) /\ tasks[t].cart # 0
           /\ carts[tasks[t].cart].items # NoItems
           /\ \/ /\ carts[tasks[t].cart].checkoutStatus = FAILED
                 /\ carts[tasks[t].cart].checkoutError = CHECKOUT_TIMEOUT
              \/ /\ carts[tasks[t].cart].checkoutStatus = IN_PROGRESS
                 /\ carts[tasks[t].cart].checkoutStartedAt # Undefined
                 /\ now - carts[tasks[t].cart].checkoutStartedAt >= GracePeriodMs)
          => FreshAttempt(t)]_vars

\* the cart of u1 was failed by a pass (the timeout error is still on it) and
\* a checkout then marked it in_progress again and called the provider
C28_Witness ==
  \E t \in TaskIds :
    /\ tasks[t].cart = 1 /\ tasks[t].extCalls >= 1
    /\ carts[1].checkoutError = CHECKOUT_TIMEOUT
    /\ carts[1].checkoutStartedAt = now
    /\ \A t2 \in TaskIds : t2 < t => tasks[t2].extCalls = 0

\* C29: when the checkout call of the provider reports failure, the cart
\* becomes failed with that error recorded, the checkout resolves with a
\* failed result carrying the error, the cart stays in the store with its
\* items; a later checkout that finds the cart failed and non-empty proceeds
\* to in_progress again.
C29_ProviderFailure ==
  [][\A t \in TaskIds :
       /\ (tasks[t].st = "running" /\ tasks[t].pc = "checkout" /\ tasks'[t].st = "settled")
          => LET c == tasks[t].cart
             IN /\ tasks'[t].ok
                /\ tasks'[t].result.status = FAILED
                /\ tasks'[t].result.error # ""
                /\ carts'[c].checkoutStatus = FAILED
                /\ carts'[c].checkoutError = tasks'[t].result.error
                /\ cartStore'[tasks[t].user] = c
                /\ carts'[c].items = carts[c].items
       /\ (/\ LeavesGuard(t) /\ tasks[t].cart # 0
           /\ carts[tasks[t].cart].checkoutStatus = FAILED
           /\ carts[tasks[t].cart].items # NoItems)
          => FreshAttempt(t)]_vars

\* a checkout failed at the provider's checkout call, and a later checkout of
\* the same cart went on to call the provider
C29_Witness ==
  \E t1, t2 \in CheckoutTasks :
    /\ t1 < t2
    /\ tasks[t1].st = "settled"
    /\ tasks[t1].result = FailedResult(PROVIDER_CHECKOUT_FAILED)
    /\ tasks[t1].extCalls = 3
    /\ tasks[t2].cart = tasks[t1].cart
    /\ tasks[t2].extCalls >= 1
    /\ cartStore[tasks[t1].user] = tasks[t1].cart
    /\ carts[tasks[t1].cart].items # NoItems

\* the external list differs from the local one in the number of lines or
\* in the quantity of some product of the cart
ListsDiffer(localItems, externalItems) ==
  \/ Len(localItems) # Len(externalItems)
  \/ \E i \in 1..Len(localItems) :
       ~\E j \in 1..Len(externalItems) :
          /\ externalItems[j].productId = localItems[i].productId
          /\ externalItems[j].quantity = localItems[i].quantity

\* C30: when the item list read back from the provider after the forced
\* resync differs from the local cart in count or in a product's quantity,
\* checkout aborts: it settles with a failed result carrying a sync
\* validation error, the cart is failed with that error, and the provider's
\* checkout is not called (no order, session untouched); when count and
\* quantities agree the validation passes and checkout goes on to the
\* provider's checkout call.
C30_SyncValidation ==
  [][\A t \in TaskIds :
       (/\ tasks[t].st = "running" /\ tasks[t].pc = "getCart"
        /\ tasks'[t].seen # <<>>)
       => LET c == tasks[t].cart
          IN IF ListsDiffer(carts[c].items, tasks'[t].seen[1])
             THEN /\ tasks'[t].st = "settled" /\ tasks'[t].ok
                  /\ tasks'[t].result.status = FAILED
                  /\ tasks'[t].result.error \in {CART_SYNC_VALIDATION_FAILED_ITEM_COUNT,
                                                 CART_SYNC_VALIDATION_FAILED_ITEM_MISMATCH}
                  /\ carts'[c].checkoutStatus = FAILED
                  /\ carts'[c].checkoutError = tasks'[t].result.error
                  /\ orderLog' = orderLog /\ sessions' = sessions
             ELSE /\ tasks'[t].st = "running" /\ tasks'[t].pc = "checkout"
                  /\ carts' = carts]_vars

\* a checkout aborted on a list read back with another quantity, and a later
\* checkout of the same cart whose read agreed and which went on
C30_Witness ==
  \E t1, t2 \in CheckoutTasks :
    /\ t1 < t2 /\ tasks[t1].cart = tasks[t2].cart
    /\ tasks[t1].st = "settled"
    /\ tasks[t1].result = FailedResult(CART_SYNC_VALIDATION_FAILED_ITEM_MISMATCH)
    /\ Len(tasks[t1].seen[1]) = Len(carts[tasks[t1].cart].items)
    /\ tasks[t2].seen = <<carts[tasks[t2].cart].items>>
    /\ tasks[t2].pc = "checkout"

\* a checkout call has settled with a tagged result
Definitive(t) ==
  /\ t \in TaskIds
  /\ tasks[t].st = "settled"
  /\ tasks[t].ok
  /\ tasks[t].result.status \in {COMPLETED, FAILED}

\* C31 (as stated): every checkout request settles in the end with a result
\* whose status is completed or failed, whether the earlier requests of the
\* user succeeded or failed.
C31_AsStated ==
  \A t \in 1..MaxTasks :
    (t \in TaskIds /\ tasks[t].kind = "checkout") ~> Definitive(t)

\* C31 (termination alone): every request made settles in the end, and a
\* checkout whose operation was run settles with a completed or failed result.
C31_EverySettles ==
  \A t \in 1..MaxTasks :
    (t \in TaskIds) ~> (/\ t \in TaskIds
                        /\ tasks[t].st = "settled"
                        /\ (tasks[t].kind = "checkout" /\ tasks[t].ran) => Definitive(t))

\* the reconciliation step of task t
SyncStep(t) == tasks[t].st = "running" /\ tasks[t].pc = "sync" /\ tasks'[t].st = "settled"

\* a handle in the store is replaced by another session's handle or removed,
\* or only its expired flag changes
HandleNotRewritten(userId) ==
  (contextStore[userId] # NoContext /\ contextStore'[userId] # NoContext)
    => \/ contextStore'[userId].contextId # contextStore[userId].contextId
       \/ [contextStore'[userId] EXCEPT !.isExpired = contextStore[userId].isExpired]
            = contextStore[userId]

\* C32 (as stated): when the external capability signals session-expired
\* during a reconciliation pass, the user's handle is removed from the store
\* or flagged expired, so that a read of the store returns no handle
\* afterwards; and a stored handle is never changed in place apart from its
\* expired flag.
C32_AsStated ==
  [][/\ \A t \in TaskIds :
          (SyncStep(t) /\ carts'[tasks[t].cart].lastSyncError = CONTEXT_EXPIRED
                       /\ tasks'[t].fault = "getCart")
            => \/ contextStore'[tasks[t].user] = NoContext
               \/ ContextExpired(contextStore'[tasks[t].user])
     /\ \A u \in Users : HandleNotRewritten(u)]_vars

\* C32 (what the code does): a handle whose session the external capability
\* reports invalid at validateContext is replaced by the handle of a new
\* session when the pass goes on, and no stored handle is changed in place.
C32_ReplacedAtValidation ==
  [][/\ \A t \in TaskIds :
          (SyncStep(t) /\ ContextStoreGet(tasks[t].user) # NoContext
                       /\ ~SessionUsable(ContextStoreGet(tasks[t].user).contextId)
                       /\ tasks'[t].fault \notin {"validateContext", "createCart"})
            => /\ contextStore'[tasks[t].user] # NoContext
               /\ contextStore'[tasks[t].user].contextId = Len(sessions')
               /\ contextStore'[tasks[t].user].contextId
                    # contextStore[tasks[t].user].contextId
     /\ \A u \in Users : HandleNotRewritten(u)]_vars

\* the two lists hold the same product ids, each once, with the same quantities
SameLines(localItems, externalItems) ==
  /\ Len(localItems) = Len(externalItems)
  /\ \A i \in 1..Len(localItems) :
       \E j \in 1..Len(externalItems) :
         /\ externalItems[j].productId = localItems[i].productId
         /\ externalItems[j].quantity = localItems[i].quantity
  /\ \A j \in 1..Len(externalItems) : FindIndex(localItems, externalItems[j].productId) > 0

\* the items of the session of the handle stored for the user
HandleItems(userId) == sessions[contextStore[userId].contextId].items

\* C33: when a reconciliation pass ends with the cart marked synced, the
\* session of the user's handle holds exactly the product ids of the local
\* cart, each with the local quantity; and the removals come first: a pass
\* that fails at an addition has already taken out of the session every
\* product that is absent locally.
C33_SyncedMeansEqual ==
  [][\A t \in TaskIds :
       SyncStep(t) =>
         LET u == tasks[t].user
             localItems == carts'[tasks[t].cart].items
         IN /\ carts'[tasks[t].cart].syncStatus = SYNCED
                 => /\ contextStore'[u] # NoContext
                    /\ SameLines(localItems, sessions'[contextStore'[u].contextId].items)
            /\ tasks'[t].fault = "addItem"
                 => \A j \in 1..Len(sessions'[contextStore'[u].contextId].items) :
                      FindIndex(localItems,
                                sessions'[contextStore'[u].contextId].items[j].productId) > 0]_vars

\* a pass that had both to remove and to add: p1 was synced, the pass after
\* adding p2 failed, and the pass after removing p1 left the session with p2 alone
C33_Witness ==
  /\ Len(tasks) = 3
  /\ \A t \in TaskIds : tasks[t].st = "settled" /\ tasks[t].ok
  /\ tasks[1].kind = "addItem" /\ tasks[1].fault = "none"
  /\ tasks[2].kind = "addItem" /\ tasks[2].product # tasks[1].product
  /\ tasks[2].fault = "getCart"
  /\ tasks[3].kind = "removeItem" /\ tasks[3].product = tasks[1].product
  /\ tasks[3].fault = "none"
  /\ carts[tasks[3].cart].syncStatus = SYNCED
  /\ Len(carts[tasks[3].cart].items) = 1
  /\ contextStore["u1"] # NoContext
  /\ SameLines(carts[tasks[3].cart].items, HandleItems("u1"))

\* C34: the provider's checkout always returns a tagged result, completed or
\* failed; on a session that is known, not expired and not empty it
\* completes with an order id and removes the session; on an unknown,
\* expired or empty session it returns a failed result without an order id;
\* so no session id ever gets two completed results.
C34_ProviderCheckout ==
  /\ \A i \in 1..Len(orderLog) :
       /\ orderLog[i].status \in {COMPLETED, FAILED}
       /\ (orderLog[i].usable /\ ~orderLog[i].empty)
            => /\ orderLog[i].status = COMPLETED /\ orderLog[i].orderId # 0
               /\ ~SessionKnown(orderLog[i].ctx)
       /\ (~orderLog[i].usable \/ orderLog[i].empty)
            => orderLog[i].status = FAILED /\ orderLog[i].orderId = 0
  /\ \A i, j \in 1..Len(orderLog) :
       (/\ orderLog[i].ctx = orderLog[j].ctx
        /\ orderLog[i].status = COMPLETED /\ orderLog[j].status = COMPLETED) => i = j

\* checkout completed on a session, a second checkout on the same id failed,
\* and a checkout on an empty session failed
C34_Witness ==
  /\ Len(orderLog) = 3
  /\ orderLog[1].status = COMPLETED /\ orderLog[1].orderId # 0
  /\ orderLog[2].ctx = orderLog[1].ctx
  /\ orderLog[2].status = FAILED /\ orderLog[2].orderId = 0
  /\ orderLog[3].empty /\ orderLog[3].status = FAILED /\ orderLog[3].orderId = 0

\* the completed cart of the user was left in the store by STEP 9
LeftCompleted(userId) ==
  /\ cartStore[userId] # 0
  /\ carts[cartStore[userId]].checkoutStatus = COMPLETED
  /\ \A t \in TaskIds : tasks[t].cart = cartStore[userId] => tasks[t].pc # "cleanup"

\* C35: a cart left in the store completed after the cleanup of checkout
\* failed is removed in the end by a pass of the cleanup service, together
\* with the user's session handle; and a checkout that finds the completed
\* cart answers with the cached result and changes nothing.
C35_SweeperFinishes ==
  /\ \A u \in ClockUsers :
       LeftCompleted(u) ~> (cartStore[u] = 0 /\ contextStore[u] = NoContext)
  /\ [][\A t \in CheckoutTasks :
          (/\ tasks[t].st = "running" /\ tasks[t].pc = "guard"
           /\ tasks[t].cart # 0
           /\ carts[tasks[t].cart].checkoutStatus = COMPLETED
           /\ tasks'[t] # tasks[t])
          => /\ tasks'[t].st = "settled" /\ tasks'[t].ok
             /\ tasks'[t].result = carts[tasks[t].cart].checkoutResult
             /\ tasks'[t].result.status = COMPLETED
             /\ StoresUnchanged]_vars

\* the cleanup of a completed checkout failed, a second checkout was answered
\* from the cached result, and a pass has since removed cart and handle
C35_Witness ==
  \E t1, t2 \in CheckoutTasks :
    /\ t1 < t2
    /\ tasks[t1].st = "settled" /\ tasks[t1].result.status = COMPLETED
    /\ tasks[t2].st = "settled" /\ tasks[t2].ok /\ tasks[t2].extCalls = 0
    /\ tasks[t2].result = tasks[t1].result
    /\ cartStore[tasks[t1].user] = 0
    /\ contextStore[tasks[t1].user] = NoContext

\* the positions of checkout after the in_progress mark of STEP 1
AfterMark == {"createCart", "getCart", "checkout", "cleanup"}

\* C36: when a checkout that had marked the cart in_progress finishes,
\* whatever the outcome (completed, failed result of the provider, failed
\* validation, exception caught), the cart it worked on is completed or
\* failed, and the cart stored for the user, if any, is not in_progress.
C36_NotLeftInProgress ==
  [][\A t \in CheckoutTasks :
       (/\ tasks[t].st = "running" /\ tasks[t].pc \in AfterMark
        /\ tasks'[t].st = "settled")
       => /\ carts'[tasks[t].cart].checkoutStatus \in {COMPLETED, FAILED}
          /\ \/ cartStore'[tasks[t].user] = 0
             \/ cartStore'[tasks[t].user] = tasks[t].cart]_vars

\* a checkout ended by a failed validation with the cart stored as failed,
\* and a later one completed with the cart removed from the store
C36_Witness ==
  \E t1, t2 \in CheckoutTasks :
    /\ t1 < t2 /\ tasks[t1].cart = tasks[t2].cart
    /\ tasks[t1].st = "settled" /\ tasks[t1].seen # <<>>
    /\ tasks[t1].result.status = FAILED
    /\ carts[tasks[t1].cart].checkoutError = tasks[t1].result.error
    /\ tasks[t2].st = "settled" /\ tasks[t2].result.status = COMPLETED
    /\ carts[tasks[t2].cart].checkoutStatus = COMPLETED
    /\ cartStore[tasks[t2].user] = 0

\* the four checkout fields of a cart
CheckoutFields(cart) ==
  <<cart.checkoutStatus, cart.checkoutStartedAt, cart.checkoutResult, cart.checkoutError>>

FrameKinds == MutatingKinds \cup {"setTaxContext"}

\* C37: a step of addItem, updateItemQuantity, removeItem, clearCart or
\* setTaxContext leaves checkoutStatus, checkoutStartedAt, checkoutResult and
\* checkoutError of every cart as they were, and a cart it creates is
\* pending; the operation is accepted whatever the checkout status: it
\* fails only for a line that is not in the cart or a cart that is not stored.
C37_CheckoutFieldsKept ==
  [][\A t \in TaskIds :
       (tasks[t].kind \in FrameKinds /\ tasks'[t] # tasks[t])
       => /\ \A c \in 1..Len(carts) : CheckoutFields(carts'[c]) = CheckoutFields(carts[c])
          /\ \A c \in (Len(carts) + 1)..Len(carts') :
               CheckoutFields(carts'[c]) = CheckoutFields(NewCart(tasks[t].user))
          /\ (tasks[t].pc = "apply" /\ tasks'[t].st = "settled" /\ ~tasks'[t].ok)
               => \/ /\ tasks[t].kind \in {"updateItemQuantity", "removeItem"}
                     /\ tasks'[t].error = ITEM_NOT_FOUND
                     /\ FindIndex(tasks'[t].before, tasks[t].product) = 0
                  \/ /\ tasks[t].kind = "clearCart"
                     /\ tasks'[t].error = CART_NOT_FOUND
                     /\ tasks[t].cart = 0]_vars

\* on a stored cart that is not pending, an item operation and setTaxContext
\* have both succeeded and changed it
C37_Witness ==
  \E t1, t2 \in TaskIds :
    /\ tasks[t1].kind \in {"addItem", "updateItemQuantity", "removeItem"}
    /\ tasks[t2].kind = "setTaxContext"
    /\ tasks[t1].st = "settled" /\ tasks[t1].ok /\ tasks[t1].before # tasks[t1].after
    /\ tasks[t2].st = "settled" /\ tasks[t2].ok
    /\ tasks[t1].cart = 1 /\ tasks[t2].cart = 1
    /\ carts[1].taxContext = tasks[t2].product
    /\ carts[1].checkoutStatus = COMPLETED
    /\ carts[1].checkoutResult = CompletedResult(1)

C38_HandleDeletedUnlessFailedRule ==
  [][CleanupPass =>
       \A u \in Users :
         (cartStore[u] # 0 /\ cartStore'[u] = 0)
           => \/ contextStore'[u] = NoContext
              \/ /\ carts[cartStore[u]].checkoutStatus = FAILED
                 /\ contextStore'[u] = contextStore[u]
                 /\ ~ContextExpired(contextStore[u])]_vars

\* every session but `ctx` is as it was
OtherSessionsKept(ctx) ==
  \A j \in 1..Len(sessions) : j # ctx => sessions'[j] = sessions[j]

\* C39: a checkout that passed the guards creates a new session holding the
\* local item list, whatever handle is stored for the user, and stores the
\* new handle in place of the old one without touching the older sessions;
\* its validation read and its call of the provider's checkout are made on
\* that session, which no other checkout uses, and touch no other session.
C39_FreshSession ==
  [][\A t \in CheckoutTasks :
       LET u == tasks[t].user
           c == tasks[t].cart
           ctx == tasks[t].ctx
       IN /\ (tasks[t].pc = "createCart" /\ tasks'[t].pc = "getCart")
               => /\ Len(sessions') = Len(sessions) + 1
                  /\ OtherSessionsKept(0)
                  /\ sessions'[Len(sessions')].items = carts[c].items
                  /\ sessions'[Len(sessions')].userId = u
                  /\ tasks'[t].ctx = Len(sessions')
                  /\ contextStore'[u].contextId = Len(sessions')
                  /\ \A v \in Users \ {u} : contextStore'[v] = contextStore[v]
          /\ (tasks[t].pc \in {"getCart", "checkout"} /\ tasks'[t] # tasks[t])
               => /\ ctx \in 1..Len(sessions) /\ sessions[ctx].userId = u
                  /\ \A t2 \in CheckoutTasks \ {t} : tasks[t2].ctx # ctx
                  /\ OtherSessionsKept(ctx)
                  /\ Len(sessions') = Len(sessions)
                  /\ (tasks[t].pc = "getCart" /\ tasks'[t].seen # <<>>)
                       => tasks'[t].seen[1] \in SessionReads(sessions[ctx].items)
                  /\ orderLog' # orderLog
                       => /\ orderLog'[Len(orderLog')].ctx = ctx
                          /\ ~sessions'[ctx].live]_vars

\* a checkout validated on session 2, created from the cart while the handle
\* of session 1 (made by addItem, still usable, holding the same items) was
\* stored: the stored handle is now that of session 2
C39_Witness ==
  \E t \in CheckoutTasks :
    /\ tasks[t].st = "running" /\ tasks[t].pc = "checkout"
    /\ tasks[t].ctx = 2
    /\ SessionUsable(1) /\ sessions[1].items = carts[tasks[t].cart].items
    /\ sessions[2].items = carts[tasks[t].cart].items
    /\ carts[tasks[t].cart].items # NoItems
    /\ tasks[t].seen = <<sessions[2].items>>
    /\ contextStore[tasks[t].user].contextId = 2

====
